---- MODULE Spec2Model ----
(***************************************************************************)
(* State-machine model of AdvancedSwitchController                         *)
(* (custom_components/advanced_switches/__init__.py).                      *)
(*                                                                         *)
(* Units.  Time is an integer number of seconds, observed on the grid of   *)
(* the configured delays' common divisor.  Power is an integer      *)
(* number of hundredths of a watt (so round(x, 2) and round(x, 1) are      *)
(* computed, not assumed).  Energy is an integer number of 0.0002 kWh      *)
(* (so round(x, 3) is the rounding to a multiple of 5 units).              *)
(* Python's None is the integer None (-1) for numeric fields, every        *)
(* numeric domain being non-negative, and the empty tuple for string       *)
(* fields.                                                                 *)
(***************************************************************************)
EXTENDS Integers, Sequences, FiniteSets, TLC

\* ------------------------------------------------------------------ bounds
\* seconds in a (shortened) day, seconds of wall-clock time explored after
\* construction, readings held in the smoothing window when a sample
\* arrives, entities that register a listener
DayLen == 240
Horizon == 240
MaxReadings == 2
MaxListeners == 3

\* --------------------------------------------------------------- constants
None == -1
NoneStr == << >>
SESSION_HISTORY_SIZE == 10
STATE_OFF == "off"
STATE_STANDBY == "standby"
STATE_ACTIVE == "active"
STATE_BLOCKED == "blocked"
MODE_SIMPLE == "simple"
MODE_STANDBY == "standby"
DEFAULT_ACTIVE_THRESHOLD_W == 50
DEFAULT_ON_DELAY_S == 3
DEFAULT_OFF_DELAY_S == 5
DEFAULT_MIN_ACTIVE_S == 10

\* The controller is constructed at the first second of day 1, so that day 0
\* ("yesterday") and earlier instants exist for persisted records.
BootTime == DayLen
MaxTime == BootTime + Horizon

\* ------------------------------------------------------------ wall clock
\* date.today(), now.weekday() and now.time() of the instant t
Date(t) == t \div DayLen
Weekday(t) == Date(t) % 7
TimeOfDay(t) == t % DayLen

\* datetime.isoformat / datetime.fromisoformat and date.isoformat /
\* date.fromisoformat: a string that is not the value, and its parse
IsoFormat(t) == <<"datetime", t>>
FromIsoFormat(s) == s[2]
DateIsoFormat(d) == <<"date", d>>
DateFromIsoFormat(s) == s[2]

\* ------------------------------------------------------------- arithmetic
\* mutant: no floor, the second argument is returned
Max_NoFloor(a, b) == b

\* max(a, b)
Max(a, b) == IF a >= b THEN a ELSE b

RECURSIVE GCD(_, _)
GCD(a, b) == IF b = 0 THEN a ELSE GCD(b, a % b)

\* round(n / d) to the nearest integer, ties to even (Python's round)
RoundDiv(n, d) ==
    LET q == n \div d
        r == n % d
    IN  IF 2 * r < d THEN q
        ELSE IF 2 * r > d THEN q + 1
        ELSE IF q % 2 = 0 THEN q ELSE q + 1

\* round(energy_kwh, 3): energy in units of 0.0002 kWh, to a multiple of 5
Round3(e) == 5 * RoundDiv(e, 5)
\* round(power, 1): power in hundredths of a watt, to a multiple of 10
Round1(p) == 10 * RoundDiv(p, 10)

RECURSIVE SumField(_, _)
SumField(h, f) == IF h = << >> THEN 0 ELSE Head(h)[f] + SumField(Tail(h), f)

\* mutant: list[-n:], the last n elements instead of the first
Take_KeepsLast(s, n) == IF Len(s) <= n THEN s ELSE SubSeq(s, Len(s) - n + 1, Len(s))

\* list[:n]
Take(s, n) == IF Len(s) <= n THEN s ELSE SubSeq(s, 1, n)

\* ------------------------------------------------------------ construction
\* __init__: configuration from entry.data (a record holding every key).
\* Thresholds are in watts, delays in seconds; schedule_start/schedule_end
\* are times of day (seconds after midnight).
Config(data) ==
    [ mode |-> data.mode,
      schedule_enabled |-> data.schedule_enabled,
      schedule_start |-> data.schedule_start,
      schedule_end |-> data.schedule_end,
      schedule_days |-> data.schedule_days,
      auto_off_enabled |-> data.auto_off_enabled,
      auto_off_minutes |-> data.auto_off_minutes,
      power_smoothing_s |-> data.power_smoothing_s,
      active_threshold_w |-> data.active_threshold_w,
      on_delay_s |-> data.on_delay_s,
      off_delay_s |-> data.off_delay_s,
      min_duration_s |-> IF data.mode = MODE_SIMPLE THEN data.min_active_s
                         ELSE data.min_session_s,
      standby_threshold_w |-> IF data.mode = MODE_SIMPLE THEN 0
                              ELSE data.standby_threshold_w,
      session_end_grace_s |-> IF data.mode = MODE_SIMPLE THEN data.off_delay_s
                              ELSE data.session_end_grace_s,
      active_standby_delay_s |-> IF data.mode = MODE_SIMPLE THEN data.on_delay_s
                                 ELSE data.active_standby_delay_s ]

\* __init__: the controller's fields at time t.  scheduled is not a field of
\* the controller: it is the event loop's share of it, the callbacks that
\* async_call_later has scheduled for it and that have neither fired nor
\* been cancelled, each <<kind, deadline, target_state>>.
Controller(t) ==
    [ power_readings |-> << >>,
      state |-> STATE_OFF,
      session_start_time |-> None,
      session_start_energy |-> None,
      current_energy |-> None,
      current_power |-> 0,
      power_available |-> TRUE,
      energy_available |-> TRUE,
      schedule_blocked |-> FALSE,
      was_on_before_schedule_off |-> FALSE,
      session_peak_power |-> 0,
      pending_on_timer |-> None,
      pending_off_timer |-> None,
      pending_target_state |-> NoneStr,
      auto_off_timer |-> None,
      scheduled |-> {},
      pending_session_end |-> FALSE,
      sessions_total |-> 0,
      sessions_today |-> 0,
      energy_today_kwh |-> 0,
      energy_total_kwh |-> 0,
      last_session_duration_s |-> None,
      last_session_energy_kwh |-> None,
      last_session_peak_power_w |-> None,
      today_date |-> Date(t),
      state_restored |-> FALSE,
      session_history |-> << >>,
      avg_session_duration_s |-> None,
      avg_session_energy_kwh |-> None ]

\* ------------------------------------------------------- session accountant
\* _calculate_averages: avg duration in tenths of a second (round(x, 1)),
\* avg energy in energy units (round(x, 3)); history energies are multiples
\* of 5 units
_calculate_averages(c) ==
    IF c.session_history = << >>
    THEN [c EXCEPT !.avg_session_duration_s = None,
                   !.avg_session_energy_kwh = None]
    ELSE LET count == Len(c.session_history)
             total_duration == SumField(c.session_history, "duration_s")
             total_energy == SumField(c.session_history, "energy_kwh")
         IN  [c EXCEPT !.avg_session_duration_s = RoundDiv(10 * total_duration, count),
                       !.avg_session_energy_kwh = 5 * RoundDiv(total_energy \div 5, count)]

\* mutant: the session's start time survives the reset
_reset_session_KeepsStart(c) ==
    [c EXCEPT !.session_start_energy = None,
              !.session_peak_power = 0,
              !.pending_session_end = FALSE,
              !.state = STATE_OFF]

\* _reset_session
_reset_session(c) ==
    [c EXCEPT !.session_start_time = None,
              !.session_start_energy = None,
              !.session_peak_power = 0,
              !.pending_session_end = FALSE,
              !.state = STATE_OFF]

\* async_call_later(hass, delay, callback): the callback is scheduled
ScheduleCall(c, handle) == [c EXCEPT !.scheduled = @ \cup {handle}]
\* a call of the function async_call_later returned: the callback is
\* unscheduled
CancelCall(c, handle) == [c EXCEPT !.scheduled = @ \ {handle}]
\* the event loop runs a scheduled callback: it is scheduled no more
Fired(c, handle) == [c EXCEPT !.scheduled = @ \ {handle}]

\* what the slot of a timer kind refers to
OnHandle(c) == <<"on", c.pending_on_timer, c.pending_target_state>>
OffHandle(c) == <<"off", c.pending_off_timer, NoneStr>>
AutoOffHandle(c) == <<"auto_off", c.auto_off_timer, NoneStr>>

\* _cancel_auto_off_timer
_cancel_auto_off_timer(c) ==
    IF c.auto_off_timer # None
    THEN [CancelCall(c, AutoOffHandle(c)) EXCEPT !.auto_off_timer = None]
    ELSE c

\* mutant: the duration is compared with the minimum taken in minutes
DurationBelowMin_InMinutes(duration_s, cf) == duration_s < cf.min_duration_s \div 60

\* _end_session, its test "duration_s < self._min_duration_s"
DurationBelowMin(duration_s, cf) == duration_s < cf.min_duration_s

\* _end_session at time t
_end_session(c0, cf, t) ==
    LET c == _cancel_auto_off_timer(c0) IN
    IF c.session_start_time = None
    THEN [c EXCEPT !.state = STATE_OFF]
    ELSE
    LET duration_s == t - c.session_start_time IN
    IF DurationBelowMin(duration_s, cf)
    THEN _reset_session(c)
    ELSE
    LET energy_kwh ==
            IF c.current_energy # None /\ c.session_start_energy # None
            THEN Max(0, c.current_energy - c.session_start_energy)
            ELSE 0
        session_record ==
            [ start |-> IsoFormat(c.session_start_time),
              end |-> IsoFormat(t),
              duration_s |-> duration_s,
              energy_kwh |-> Round3(energy_kwh),
              peak_power_w |-> Round1(c.session_peak_power) ]
        c1 == [c EXCEPT !.sessions_total = @ + 1,
                        !.sessions_today = @ + 1,
                        !.energy_today_kwh = @ + energy_kwh,
                        !.energy_total_kwh = @ + energy_kwh,
                        !.last_session_duration_s = duration_s,
                        !.last_session_energy_kwh = Round3(energy_kwh),
                        !.last_session_peak_power_w = Round1(c.session_peak_power),
                        !.session_history =
                            Take(<<session_record>> \o @, SESSION_HISTORY_SIZE)]
    IN  _reset_session(_calculate_averages(c1))

\* _start_session at time t
_start_session(c, t) ==
    [c EXCEPT !.session_start_time = t,
              !.session_start_energy = c.current_energy,
              !.session_peak_power = c.current_power]

\* mutant: every change of state starts a session
_transition_to_AlwaysStarts(c, new_state, t) ==
    IF new_state = c.state THEN c
    ELSE [_start_session(c, t) EXCEPT !.state = new_state]

\* mutant: leaving OFF does not start a session
_transition_to_NoSession(c, new_state, t) ==
    IF new_state = c.state THEN c
    ELSE [c EXCEPT !.state = new_state]

\* _transition_to
_transition_to(c, new_state, t) ==
    IF new_state = c.state THEN c
    ELSE LET c1 == IF c.state = STATE_OFF /\ new_state \in {STATE_STANDBY, STATE_ACTIVE}
                   THEN _start_session(c, t) ELSE c
         IN  [c1 EXCEPT !.state = new_state]

\* mutant: the day reset clears the total counter instead of today's
_check_day_reset_ClearsTotal(c, t) ==
    IF c.today_date # Date(t)
    THEN [c EXCEPT !.sessions_total = 0,
                   !.energy_today_kwh = 0,
                   !.today_date = Date(t)]
    ELSE c

\* _check_day_reset at time t
_check_day_reset(c, t) ==
    IF c.today_date # Date(t)
    THEN [c EXCEPT !.sessions_today = 0,
                   !.energy_today_kwh = 0,
                   !.today_date = Date(t)]
    ELSE c

\* ------------------------------------------------------ debounce timers
\* A timer slot holds the deadline of the scheduled callback, or None.
\* mutant: the slot is cleared but the scheduled callback is not cancelled
_cancel_on_timer_KeepsCall(c) ==
    IF c.pending_on_timer # None
    THEN [c EXCEPT !.pending_on_timer = None, !.pending_target_state = NoneStr]
    ELSE c

\* _cancel_on_timer
_cancel_on_timer(c) ==
    IF c.pending_on_timer # None
    THEN [CancelCall(c, OnHandle(c)) EXCEPT !.pending_on_timer = None,
                                            !.pending_target_state = NoneStr]
    ELSE c

\* mutant: a pending 'on' timer is replaced even when the target is the same
_start_on_timer_Restarts(c, cf, target_state, t) ==
    LET c1 == _cancel_on_timer(c)
        delay == IF c1.state \in {STATE_ACTIVE, STATE_STANDBY}
                    /\ target_state \in {STATE_ACTIVE, STATE_STANDBY}
                 THEN cf.active_standby_delay_s
                 ELSE cf.on_delay_s
    IN  ScheduleCall([c1 EXCEPT !.pending_target_state = target_state,
                               !.pending_on_timer = t + delay],
                     <<"on", t + delay, target_state>>)

\* _start_on_timer at time t (delay is None at every call site)
_start_on_timer(c, cf, target_state, t) ==
    IF c.pending_on_timer # None /\ c.pending_target_state = target_state
    THEN c
    ELSE LET c1 == _cancel_on_timer(c)
             delay == IF c1.state \in {STATE_ACTIVE, STATE_STANDBY}
                         /\ target_state \in {STATE_ACTIVE, STATE_STANDBY}
                      THEN cf.active_standby_delay_s
                      ELSE cf.on_delay_s
         IN  ScheduleCall([c1 EXCEPT !.pending_target_state = target_state,
                                    !.pending_on_timer = t + delay],
                          <<"on", t + delay, target_state>>)

\* _start_on_timer.on_timer_callback at time t; target_state is the one the
\* callback was created with
on_timer_callback(c, target_state, t) ==
    _transition_to([c EXCEPT !.pending_on_timer = None,
                             !.pending_target_state = NoneStr],
                   target_state, t)

\* mutant: a pending off/grace timer is restarted by every call
_start_off_timer_Restarts(c, cf, use_grace, t) ==
    LET delay == IF use_grace THEN cf.session_end_grace_s ELSE cf.off_delay_s
    IN  ScheduleCall([c EXCEPT !.pending_session_end = TRUE,
                               !.pending_off_timer = t + delay],
                     <<"off", t + delay, NoneStr>>)

\* _start_off_timer at time t
_start_off_timer(c, cf, use_grace, t) ==
    IF c.pending_off_timer # None
    THEN c
    ELSE LET delay == IF use_grace THEN cf.session_end_grace_s ELSE cf.off_delay_s
         IN  ScheduleCall([c EXCEPT !.pending_session_end = TRUE,
                                    !.pending_off_timer = t + delay],
                          <<"off", t + delay, NoneStr>>)

\* mutant: the expiry clears the timer and leaves the session open
off_timer_callback_KeepsSession(c, cf, t) ==
    [c EXCEPT !.pending_off_timer = None, !.pending_session_end = FALSE]

\* _start_off_timer.off_timer_callback at time t
off_timer_callback(c, cf, t) ==
    _end_session([c EXCEPT !.pending_off_timer = None,
                           !.pending_session_end = FALSE], cf, t)

\* _cancel_off_timer
_cancel_off_timer(c) ==
    IF c.pending_off_timer # None
    THEN [CancelCall(c, OffHandle(c)) EXCEPT !.pending_off_timer = None,
                                             !.pending_session_end = FALSE]
    ELSE c

\* mutant: a pending auto-off timer is replaced by every call
_start_auto_off_timer_Restarts(c, cf, t) ==
    IF ~cf.auto_off_enabled THEN c
    ELSE LET c1 == _cancel_auto_off_timer(c)
         IN  ScheduleCall([c1 EXCEPT !.auto_off_timer = t + cf.auto_off_minutes * 60],
                          <<"auto_off", t + cf.auto_off_minutes * 60, NoneStr>>)

\* _start_auto_off_timer at time t
_start_auto_off_timer(c, cf, t) ==
    IF ~cf.auto_off_enabled THEN c
    ELSE IF c.auto_off_timer # None THEN c
    ELSE ScheduleCall([c EXCEPT !.auto_off_timer = t + cf.auto_off_minutes * 60],
                      <<"auto_off", t + cf.auto_off_minutes * 60, NoneStr>>)

\* -------------------------------------------------------- power smoother
\* _add_power_reading at time t
_add_power_reading(c, cf, power, t) ==
    [c EXCEPT !.power_readings =
        SelectSeq(Append(@, <<t, power>>),
                  LAMBDA r : ~(r[1] < t - cf.power_smoothing_s))]

\* _calculate_smoothed_power, the readings it keeps: datetime.now() is read
\* again, later than the timestamp of the newest reading, so a reading taken
\* exactly power_smoothing_s seconds before t is older than the cutoff
SmoothingWindow(c, cf, t) ==
    IF c.power_readings = << >> THEN << >>
    ELSE SelectSeq(c.power_readings, LAMBDA r : r[1] > t - cf.power_smoothing_s)

\* _calculate_smoothed_power, the value it returns: round(total / n, 2)
_calculate_smoothed_power(c, cf, t) ==
    LET w == SmoothingWindow(c, cf, t)
    IN  IF w = << >> THEN c.current_power
        ELSE RoundDiv(SumField(w, 2), Len(w))

\* -------------------------------------------------- activity state machine
\* mutant: the standby threshold is used where the active one is meant
ActiveThreshold_IsStandby(cf) == 100 * cf.standby_threshold_w

\* thresholds in hundredths of a watt
ActiveThreshold(cf) == 100 * cf.active_threshold_w
StandbyThreshold(cf) == 100 * cf.standby_threshold_w

\* _handle_simple_mode
_handle_simple_mode(c, cf, power, initial, t) ==
    IF c.state = STATE_OFF
    THEN IF power >= ActiveThreshold(cf)
         THEN IF initial THEN _transition_to(c, STATE_ACTIVE, t)
              ELSE _start_on_timer(c, cf, STATE_ACTIVE, t)
         ELSE _cancel_on_timer(c)
    ELSE IF c.state = STATE_ACTIVE
    THEN IF power < ActiveThreshold(cf)
         THEN _start_off_timer(c, cf, FALSE, t)
         ELSE _cancel_off_timer(c)
    ELSE c

\* _handle_standby_mode
_handle_standby_mode(c, cf, power, initial, t) ==
    IF c.state = STATE_OFF
    THEN IF power >= ActiveThreshold(cf)
         THEN IF initial THEN _transition_to(c, STATE_ACTIVE, t)
              ELSE _start_on_timer(c, cf, STATE_ACTIVE, t)
         ELSE IF power >= StandbyThreshold(cf)
         THEN IF initial THEN _transition_to(c, STATE_STANDBY, t)
              ELSE _start_on_timer(c, cf, STATE_STANDBY, t)
         ELSE _cancel_on_timer(c)
    ELSE IF c.state = STATE_STANDBY
    THEN IF power >= ActiveThreshold(cf)
         THEN _transition_to(_cancel_off_timer(c), STATE_ACTIVE, t)
         ELSE IF power < StandbyThreshold(cf)
         THEN _start_off_timer(c, cf, TRUE, t)
         ELSE IF ~c.pending_session_end
         THEN _cancel_off_timer(c)
         ELSE c
    ELSE IF c.state = STATE_ACTIVE
    THEN IF power < StandbyThreshold(cf)
         THEN _cancel_on_timer(_start_off_timer(c, cf, TRUE, t))
         ELSE IF power < ActiveThreshold(cf)
         THEN _start_on_timer(IF ~c.pending_session_end THEN _cancel_off_timer(c) ELSE c,
                              cf, STATE_STANDBY, t)
         ELSE _cancel_on_timer(IF c.pending_session_end THEN _cancel_off_timer(c) ELSE c)
    ELSE c

\* _handle_power_change
_handle_power_change(c, cf, power, initial, t) ==
    IF c.schedule_blocked THEN c
    ELSE LET c1 == _check_day_reset(c, t)
         IN  IF cf.mode = MODE_SIMPLE
             THEN _handle_simple_mode(c1, cf, power, initial, t)
             ELSE _handle_standby_mode(c1, cf, power, initial, t)

\* mutant: the peak follows the smoothed power
OnPowerChanged_SmoothedPeak(c, cf, power, t) ==
    LET c1 == _add_power_reading([c EXCEPT !.power_available = TRUE,
                                           !.current_power = power], cf, power, t)
        smoothed == _calculate_smoothed_power(c1, cf, t)
        c2 == IF c1.state # STATE_OFF /\ smoothed > c1.session_peak_power
              THEN [c1 EXCEPT !.session_peak_power = smoothed] ELSE c1
        c3 == [c2 EXCEPT !.power_readings = SmoothingWindow(c2, cf, t)]
    IN  _handle_power_change(c3, cf, smoothed, FALSE, t)

\* _on_state_changed, power entity, a parsable value
OnPowerChanged(c, cf, power, t) ==
    LET c1 == _add_power_reading([c EXCEPT !.power_available = TRUE,
                                           !.current_power = power], cf, power, t)
        c2 == IF c1.state # STATE_OFF /\ power > c1.session_peak_power
              THEN [c1 EXCEPT !.session_peak_power = power] ELSE c1
        smoothed == _calculate_smoothed_power(c2, cf, t)
        c3 == [c2 EXCEPT !.power_readings = SmoothingWindow(c2, cf, t)]
    IN  _handle_power_change(c3, cf, smoothed, FALSE, t)

\* _on_state_changed, energy entity, a parsable value
OnEnergyChanged(c, energy) ==
    [c EXCEPT !.energy_available = TRUE, !.current_energy = energy]

\* mutant: an unavailable power sensor is taken to read 0 W
OnUnavailable_ReadsZero(c, entity) ==
    IF entity = "power" THEN [c EXCEPT !.power_available = FALSE, !.current_power = 0]
    ELSE IF entity = "energy" THEN [c EXCEPT !.energy_available = FALSE]
    ELSE c

\* _on_state_changed, a state that is unavailable or unknown
OnUnavailable(c, entity) ==
    IF entity = "power" THEN [c EXCEPT !.power_available = FALSE]
    ELSE IF entity = "energy" THEN [c EXCEPT !.energy_available = FALSE]
    ELSE c

\* _on_state_changed, a state that float() does not parse (ValueError)
OnUnparsable(c, entity) ==
    IF entity = "power" THEN [c EXCEPT !.power_available = TRUE]
    ELSE IF entity = "energy" THEN [c EXCEPT !.energy_available = TRUE]
    ELSE c

\* _on_state_changed, switch entity
OnSwitchChanged(c, cf, new_state, t) ==
    IF new_state = "on" THEN _start_auto_off_timer(c, cf, t)
    ELSE _cancel_auto_off_timer(c)

\* ------------------------------------------------------- schedule enforcer
\* mutant: an overnight range is treated like a same-day range
_is_within_schedule_NoWrap(cf, t) ==
    IF ~cf.schedule_enabled THEN TRUE
    ELSE IF Weekday(t) \notin cf.schedule_days THEN FALSE
    ELSE cf.schedule_start <= TimeOfDay(t) /\ TimeOfDay(t) <= cf.schedule_end

\* _is_within_schedule at time t
_is_within_schedule(cf, t) ==
    IF ~cf.schedule_enabled THEN TRUE
    ELSE IF Weekday(t) \notin cf.schedule_days THEN FALSE
    ELSE IF cf.schedule_start <= cf.schedule_end
    THEN cf.schedule_start <= TimeOfDay(t) /\ TimeOfDay(t) <= cf.schedule_end
    ELSE TimeOfDay(t) >= cf.schedule_start \/ TimeOfDay(t) <= cf.schedule_end

\* mutant: the switch is turned on at every unblock, whatever the was-on flag
EnforceBegin_AlwaysRestores(c, cf, switch_is_on, t) ==
    LET was_blocked == c.schedule_blocked
        c1 == [c EXCEPT !.schedule_blocked = ~_is_within_schedule(cf, t)]
    IN  IF c1.schedule_blocked /\ ~was_blocked
        THEN IF switch_is_on
             THEN [ c |-> [c1 EXCEPT !.was_on_before_schedule_off = TRUE],
                    call |-> "turn_off", pc |-> "await_turn_off" ]
             ELSE [ c |-> [c1 EXCEPT !.was_on_before_schedule_off = FALSE],
                    call |-> "none", pc |-> "idle" ]
        ELSE IF ~c1.schedule_blocked /\ was_blocked
        THEN [ c |-> c1, call |-> "turn_on", pc |-> "await_turn_on" ]
        ELSE [ c |-> c1, call |-> "none", pc |-> "idle" ]

\* _enforce_schedule up to its await (or to its end when it awaits nothing):
\* the controller, the service called and where the coroutine stands
EnforceBegin(c, cf, switch_is_on, t) ==
    LET was_blocked == c.schedule_blocked
        c1 == [c EXCEPT !.schedule_blocked = ~_is_within_schedule(cf, t)]
    IN  IF c1.schedule_blocked /\ ~was_blocked
        THEN IF switch_is_on
             THEN [ c |-> [c1 EXCEPT !.was_on_before_schedule_off = TRUE],
                    call |-> "turn_off", pc |-> "await_turn_off" ]
             ELSE [ c |-> [c1 EXCEPT !.was_on_before_schedule_off = FALSE],
                    call |-> "none", pc |-> "idle" ]
        ELSE IF ~c1.schedule_blocked /\ was_blocked
        THEN IF c1.was_on_before_schedule_off
             THEN [ c |-> c1, call |-> "turn_on", pc |-> "await_turn_on" ]
             ELSE [ c |-> c1, call |-> "none", pc |-> "idle" ]
        ELSE [ c |-> c1, call |-> "none", pc |-> "idle" ]

\* mutant: the open session is not ended after the switch was turned off
EnforceResume_KeepsSession(c, cf, pc, t) ==
    IF pc = "await_turn_on"
    THEN [c EXCEPT !.was_on_before_schedule_off = FALSE]
    ELSE c

\* _enforce_schedule after its await returned
EnforceResume(c, cf, pc, t) ==
    IF pc = "await_turn_off"
    THEN IF c.state # STATE_OFF THEN _end_session(c, cf, t) ELSE c
    ELSE IF pc = "await_turn_on"
    THEN [c EXCEPT !.was_on_before_schedule_off = FALSE]
    ELSE c

\* the physical switch after a service call
SwitchAfter(switch, call) ==
    IF call = "turn_off" THEN "off"
    ELSE IF call = "turn_on" THEN "on"
    ELSE switch

\* ------------------------------------------------------------- persistence
\* get_persistence_data
get_persistence_data(c) ==
    [ sessions_total |-> c.sessions_total,
      sessions_today |-> c.sessions_today,
      energy_today_kwh |-> Round3(c.energy_today_kwh),
      energy_total_kwh |-> Round3(c.energy_total_kwh),
      last_session_duration_s |-> c.last_session_duration_s,
      last_session_energy_kwh |-> c.last_session_energy_kwh,
      last_session_peak_power_w |-> c.last_session_peak_power_w,
      today_date |-> DateIsoFormat(c.today_date),
      session_active |-> c.state # STATE_OFF,
      session_start_time |-> IF c.session_start_time # None
                             THEN IsoFormat(c.session_start_time) ELSE NoneStr,
      session_start_energy |-> c.session_start_energy,
      session_peak_power |-> c.session_peak_power,
      session_history |-> c.session_history,
      avg_session_duration_s |-> c.avg_session_duration_s,
      avg_session_energy_kwh |-> c.avg_session_energy_kwh ]

\* Persisted values that are not what get_persistence_data writes.  Missing:
\* the key of a numeric field is absent (data.get returns its default).
\* Malformed: a numeric field holds something int() / float() rejects.
\* MalformedStr: a date or timestamp field holds a string that is no ISO
\* date.  MalformedHistory: the history is a list whose element is no dict
\* (s.get raises AttributeError), written as an element of another shape.
\* An absent date, timestamp or history is None (NoneStr, the empty list).
Missing == -3
Malformed == -2
MalformedStr == <<"malformed">>
MalformedHistory == <<[malformed |-> TRUE]>>

\* int(v) / float(v) raises ValueError or TypeError
ConversionRaises(v) == v = Malformed \/ v = None
\* date.fromisoformat(s) / datetime.fromisoformat(s) returns
IsIsoDate(s) == Len(s) = 2 /\ s[1] = "date"
IsIsoDateTime(s) == Len(s) = 2 /\ s[1] = "datetime"

\* data.get(KEY, 0) of a counter
GetOrZero(v) == IF v = Missing THEN 0 ELSE v
\* "if data.get(KEY) is not None"
IsPresent(v) == v # None /\ v # Missing

\* The statements of restore_state in their order, each with whether its
\* conversion raises: the four counters, the three last-session values, the
\* date (its ValueError is caught), the history with its averages, the two
\* stored averages, the session start time (caught), energy and peak.
RestoreRaises(data) ==
    << ConversionRaises(GetOrZero(data.sessions_total)),
       ConversionRaises(GetOrZero(data.sessions_today)),
       ConversionRaises(GetOrZero(data.energy_today_kwh)),
       ConversionRaises(GetOrZero(data.energy_total_kwh)),
       IsPresent(data.last_session_duration_s)
           /\ ConversionRaises(data.last_session_duration_s),
       IsPresent(data.last_session_energy_kwh)
           /\ ConversionRaises(data.last_session_energy_kwh),
       IsPresent(data.last_session_peak_power_w)
           /\ ConversionRaises(data.last_session_peak_power_w),
       FALSE,
       data.session_history = MalformedHistory,
       IsPresent(data.avg_session_duration_s)
           /\ ConversionRaises(data.avg_session_duration_s),
       IsPresent(data.avg_session_energy_kwh)
           /\ ConversionRaises(data.avg_session_energy_kwh),
       FALSE,
       data.session_active /\ IsPresent(data.session_start_energy)
           /\ ConversionRaises(data.session_start_energy),
       data.session_active /\ IsPresent(data.session_peak_power)
           /\ ConversionRaises(data.session_peak_power) >>

\* statement k is reached: no statement before it raised
RestoreReaches(data, k) == \A j \in 1 .. k - 1 : ~RestoreRaises(data)[j]
\* statement k is reached and completes
RestoreCompletes(data, k) == \A j \in 1 .. k : ~RestoreRaises(data)[j]

\* restore_state at time t.  An exception leaves the assignments made before
\* it in place and _state_restored False; the malformed history is assigned
\* before _calculate_averages raises on it.
restore_state(c, data, t) ==
    IF c.state_restored THEN c
    ELSE
    LET history == Take(data.session_history, SESSION_HISTORY_SIZE)
        has_history == data.session_history # << >>
        averaged == _calculate_averages([c EXCEPT !.session_history = history])
    IN  [c EXCEPT
          !.sessions_total =
              IF RestoreCompletes(data, 1) THEN GetOrZero(data.sessions_total) ELSE @,
          !.sessions_today =
              IF RestoreCompletes(data, 2) THEN GetOrZero(data.sessions_today) ELSE @,
          !.energy_today_kwh =
              IF RestoreCompletes(data, 3) THEN GetOrZero(data.energy_today_kwh) ELSE @,
          !.energy_total_kwh =
              IF RestoreCompletes(data, 4) THEN GetOrZero(data.energy_total_kwh) ELSE @,
          !.last_session_duration_s =
              IF RestoreCompletes(data, 5) /\ IsPresent(data.last_session_duration_s)
              THEN data.last_session_duration_s ELSE @,
          !.last_session_energy_kwh =
              IF RestoreCompletes(data, 6) /\ IsPresent(data.last_session_energy_kwh)
              THEN data.last_session_energy_kwh ELSE @,
          !.last_session_peak_power_w =
              IF RestoreCompletes(data, 7) /\ IsPresent(data.last_session_peak_power_w)
              THEN data.last_session_peak_power_w ELSE @,
          !.today_date =
              IF RestoreCompletes(data, 8) /\ data.today_date # NoneStr
              THEN IF IsIsoDate(data.today_date)
                   THEN DateFromIsoFormat(data.today_date) ELSE Date(t)
              ELSE @,
          !.session_history =
              IF RestoreReaches(data, 9) /\ has_history THEN history ELSE @,
          !.avg_session_duration_s =
              IF RestoreCompletes(data, 10) /\ IsPresent(data.avg_session_duration_s)
              THEN data.avg_session_duration_s
              ELSE IF RestoreCompletes(data, 9) /\ has_history
              THEN averaged.avg_session_duration_s ELSE @,
          !.avg_session_energy_kwh =
              IF RestoreCompletes(data, 11) /\ IsPresent(data.avg_session_energy_kwh)
              THEN data.avg_session_energy_kwh
              ELSE IF RestoreCompletes(data, 9) /\ has_history
              THEN averaged.avg_session_energy_kwh ELSE @,
          !.session_start_time =
              IF RestoreCompletes(data, 12) /\ data.session_active
                 /\ data.session_start_time # NoneStr
              THEN IF IsIsoDateTime(data.session_start_time)
                   THEN FromIsoFormat(data.session_start_time) ELSE None
              ELSE @,
          !.session_start_energy =
              IF RestoreCompletes(data, 13) /\ data.session_active
                 /\ IsPresent(data.session_start_energy)
              THEN data.session_start_energy ELSE @,
          !.session_peak_power =
              IF RestoreCompletes(data, 14) /\ data.session_active
                 /\ IsPresent(data.session_peak_power)
              THEN data.session_peak_power ELSE @,
          !.state_restored = RestoreCompletes(data, 14) ]

\* ------------------------------------------------------- entity listeners
\* register_entity_listener
register_entity_listener(listeners, callback_fn) ==
    Append(listeners, callback_fn)

\* unregister_entity_listener: list.remove drops the first occurrence
unregister_entity_listener(listeners, callback_fn) ==
    IF \E i \in 1 .. Len(listeners) : listeners[i] = callback_fn
    THEN LET i == CHOOSE i \in 1 .. Len(listeners) :
                    /\ listeners[i] = callback_fn
                    /\ \A j \in 1 .. i - 1 : listeners[j] # callback_fn
         IN  SubSeq(listeners, 1, i - 1) \o SubSeq(listeners, i + 1, Len(listeners))
    ELSE listeners

\* no call of _notify_entities
NotNotified == [called |-> << >>, raised |-> FALSE]

\* mutant: the loop without its try/except: the first callback that raises
\* ends the loop and its exception leaves _notify_entities
RECURSIVE NotifyLoop_Propagates(_, _)
NotifyLoop_Propagates(listeners, called) ==
    IF listeners = << >> THEN [called |-> called, raised |-> FALSE]
    ELSE LET callback_fn == Head(listeners)
         IN  IF callback_fn[2] = "raises"
             THEN [called |-> Append(called, callback_fn), raised |-> TRUE]
             ELSE NotifyLoop_Propagates(Tail(listeners), Append(called, callback_fn))

\* _notify_entities, its loop from the callbacks not yet called: each is
\* called inside try/except Exception, so the loop goes on after a raise
RECURSIVE NotifyLoop(_, _)
NotifyLoop(listeners, called) ==
    IF listeners = << >> THEN [called |-> called, raised |-> FALSE]
    ELSE \* callback_fn() returns, or raises and the exception is logged
         NotifyLoop(Tail(listeners), Append(called, Head(listeners)))

\* mutant: _notify_entities without the try/except around the call
_notify_entities_Propagates(listeners) == NotifyLoop_Propagates(listeners, << >>)

\* _notify_entities
_notify_entities(listeners) == NotifyLoop(listeners, << >>)

\* =================================================================== state
VARIABLES
    c,              \* the controller's fields
    cfg,            \* its configuration (fixed at construction)
    now,            \* wall-clock time, seconds
    phase,          \* "constructed" | "running" | "stopped"
    saved,          \* << >> or <<record>>: the persisted attributes found at setup
    switch_state,   \* state of the physical switch entity: "on" | "off"
    switch_events,  \* switch state_changed events whose handler task has not run yet
    enforce_pc,     \* _enforce_schedule coroutine: "idle" | "await_turn_off" | "await_turn_on"
    auto_off_pc,    \* _auto_turn_off coroutine: "idle" | "await_turn_off"
    service_call,   \* the switch service called by the last step: "none" | "turn_off" | "turn_on"
    session_log,    \* what the last step logged about the session: "none" |
                    \* "started" | "discarded" | "ended" | "restored"
    schedule_due,   \* the minute's schedule_check has been triggered and has not run yet
    sample_cap,     \* None, or a strict upper bound on every power sample delivered
    entity_listeners, \* _entity_listeners: the registered callbacks, each <<id, kind>>
                    \* with kind "returns" or "raises" (what a call of it does)
    notified,       \* what _notify_entities did in the last step: the callbacks
                    \* it called, in order, and whether an exception left it
    button_press    \* what an entity was asked to do in the last step: "none" |
                    \* the controller method a pressed button called,
                    \* "reset_all_counters" | "reset_today_counters" |
                    \* "turn_on", the command given to the proxy switch

vars == <<c, cfg, now, phase, saved, switch_state, switch_events,
          enforce_pc, auto_off_pc, service_call, session_log, schedule_due,
          sample_cap, entity_listeners, notified, button_press>>

\* ------------------------------------------------------------ input sets
\* power samples, hundredths of a watt: 0 W, 10 W, 80 W
PowerValues == {0, 1000, 8000}
\* energy readings, units of 0.0002 kWh
EnergyValues == {3, 10}

\* entry.data of a simple-mode and of a standby-mode device, delays in whole
\* minutes, schedule 00:00-00:02 of the shortened day, auto-off after 2 min
SimpleData ==
    [ mode |-> MODE_SIMPLE, active_threshold_w |-> DEFAULT_ACTIVE_THRESHOLD_W,
      standby_threshold_w |-> 5, on_delay_s |-> 60, off_delay_s |-> 120,
      min_active_s |-> 120, min_session_s |-> 120, session_end_grace_s |-> 120,
      active_standby_delay_s |-> 60, power_smoothing_s |-> 0,
      schedule_enabled |-> TRUE, schedule_start |-> 0, schedule_end |-> 120,
      schedule_days |-> 0 .. 6, auto_off_enabled |-> TRUE, auto_off_minutes |-> 2 ]
StandbyData == [SimpleData EXCEPT !.mode = MODE_STANDBY]
ConfigSet == {Config(SimpleData), Config(StandbyData)}

\* the grid on which the clock is observed: the common divisor of the delays
Granularity(cf) ==
    LET g1 == GCD(GCD(cf.on_delay_s, cf.off_delay_s),
                  GCD(cf.session_end_grace_s, cf.active_standby_delay_s))
        g2 == GCD(g1, cf.min_duration_s)
        g3 == IF cf.auto_off_enabled THEN GCD(g2, cf.auto_off_minutes * 60) ELSE g2
    IN  IF cf.schedule_enabled THEN GCD(g3, 60) ELSE g3

\* Persisted records of an earlier run of the same device, as its
\* get_persistence_data wrote them: the run committed one session on day 0
\* (PriorIdle) and was then stopped with a second session open (PriorOpen).
PriorIdle(cf) ==
    LET a == OnEnergyChanged(Controller(0), 3)
        b == _transition_to([a EXCEPT !.current_power = 8000], STATE_ACTIVE, 0)
    IN  _end_session(OnEnergyChanged(b, 10), cf, cf.min_duration_s)
PriorOpen(cf) ==
    _transition_to([PriorIdle(cf) EXCEPT !.current_power = 8000],
                   STATE_ACTIVE, cf.min_duration_s)
SavedChoices(cf) ==
    { << >>, <<get_persistence_data(PriorOpen(cf))>> }

\* -------------------------------------------------------------------- Init
InitCommon ==
    /\ now = BootTime
    /\ c = Controller(BootTime)
    /\ phase = "constructed"
    /\ switch_state \in {"on", "off"}
    /\ switch_events = << >>
    /\ enforce_pc = "idle"
    /\ auto_off_pc = "idle"
    /\ service_call = "none"
    /\ session_log = "none"
    /\ schedule_due = FALSE
    /\ entity_listeners = << >>
    /\ notified = NotNotified
    /\ button_press = "none"

Init ==
    /\ InitCommon
    /\ cfg \in ConfigSet
    /\ saved \in SavedChoices(cfg)
    /\ sample_cap = None

\* ----------------------------------------------------------------- actions
\* the listeners' part of a step of the controller: called tells whether the
\* step calls _notify_entities (each of its calls does the same)
Notify(called) ==
    /\ notified' = IF called THEN _notify_entities(entity_listeners) ELSE NotNotified
    /\ UNCHANGED entity_listeners

\* the _LOGGER line of a step that took the controller from c1 to c2:
\* "Session discarded" / "Session ended" (_end_session), "Session started"
\* (_start_session), "Restored active session" (restore_state)
SessionLog(c1, c2) ==
    IF c1.session_start_time # None /\ c2.session_start_time = None
    THEN IF c2.sessions_total = c1.sessions_total THEN "discarded" ELSE "ended"
    ELSE IF c2.session_start_time = c1.session_start_time THEN "none"
    ELSE IF c2.state_restored /\ ~c1.state_restored THEN "restored"
    ELSE "started"

\* the state_changed event of a switch whose state a service call changed,
\* seen only while the controller's listener is registered; its handler is
\* a task that runs after the call was issued
QueueSwitchEvent(events, old, new) ==
    IF new # old /\ phase = "running" THEN Append(events, new) ELSE events

\* SessionsTotalSensor.async_added_to_hass: restore_state(last_state.attributes)
Restore ==
    /\ phase = "constructed"
    /\ saved # << >>
    /\ ~c.state_restored
    /\ c' = restore_state(c, saved[1], now)
    /\ service_call' = "none"
    /\ session_log' = IF c'.state_restored THEN SessionLog(c, c') ELSE "none"
    /\ UNCHANGED <<cfg, now, phase, saved, switch_state, switch_events,
                   enforce_pc, auto_off_pc, schedule_due, sample_cap>>
    /\ button_press' = "none"
    /\ Notify(FALSE)

\* async_start, run after the platforms were set up (async_setup_entry); no
\* listener is registered and no timer armed before it returns, so nothing
\* interleaves with it.  energy and power are the sensors' states (None:
\* absent, unavailable, unknown or unparsable).
AsyncStart ==
    /\ phase = "constructed"
    /\ saved = << >> \/ c.state_restored
    /\ \E energy \in EnergyValues \cup {None}, power \in PowerValues \cup {None} :
        /\ power # None /\ sample_cap # None => power < sample_cap
        /\ LET c1 == _check_day_reset(c, now)
               b == EnforceBegin(c1, cfg, switch_state = "on", now)
               sw == SwitchAfter(switch_state, b.call)
               c2 == EnforceResume(b.c, cfg, b.pc, now)
               c3 == IF energy # None THEN [c2 EXCEPT !.current_energy = energy] ELSE c2
               c4 == IF ~c3.schedule_blocked /\ power # None
                     THEN _handle_power_change(
                            _add_power_reading([c3 EXCEPT !.current_power = power],
                                               cfg, power, now),
                            cfg, power, TRUE, now)
                     ELSE c3
               c5 == IF sw = "on" THEN _start_auto_off_timer(c4, cfg, now) ELSE c4
           IN  /\ c' = c5
               /\ switch_state' = sw
               /\ service_call' = b.call
    /\ phase' = "running"
    /\ session_log' = SessionLog(c, c')
    /\ UNCHANGED <<cfg, now, saved, switch_events, enforce_pc, auto_off_pc, schedule_due, sample_cap>>
    /\ button_press' = "none"
    /\ Notify(\/ c'.today_date # c.today_date
              \/ c'.schedule_blocked # c.schedule_blocked
              \/ c'.state # c.state
              \/ c'.auto_off_timer # c.auto_off_timer)

\* state_listener -> _on_state_changed(power entity, a number of values)
PowerSample(values) ==
    /\ phase = "running"
    /\ \E power \in values :
        /\ sample_cap # None => power < sample_cap
        /\ c' = OnPowerChanged(c, cfg, power, now)
    /\ service_call' = "none"
    /\ session_log' = SessionLog(c, c')
    /\ UNCHANGED <<cfg, now, phase, saved, switch_state, switch_events,
                   enforce_pc, auto_off_pc, schedule_due, sample_cap>>
    /\ button_press' = "none"
    /\ Notify(c'.today_date # c.today_date \/ c'.state # c.state)

\* state_listener -> _on_state_changed(power entity, a number)
PowerUpdate == PowerSample(PowerValues)

\* state_listener -> _on_state_changed(energy entity, a number)
EnergyUpdate ==
    /\ phase = "running"
    /\ \E energy \in EnergyValues : c' = OnEnergyChanged(c, energy)
    /\ service_call' = "none"
    /\ session_log' = "none"
    /\ UNCHANGED <<cfg, now, phase, saved, switch_state, switch_events,
                   enforce_pc, auto_off_pc, schedule_due, sample_cap>>
    /\ button_press' = "none"
    /\ Notify(FALSE)

\* state_listener -> _on_state_changed(power or energy entity, unavailable/unknown)
SensorUnavailable ==
    /\ phase = "running"
    /\ \E entity \in {"power", "energy"} : c' = OnUnavailable(c, entity)
    /\ service_call' = "none"
    /\ session_log' = "none"
    /\ UNCHANGED <<cfg, now, phase, saved, switch_state, switch_events,
                   enforce_pc, auto_off_pc, schedule_due, sample_cap>>
    /\ button_press' = "none"
    /\ Notify(FALSE)

\* state_listener -> _on_state_changed(power or energy entity, not a number)
SensorUnparsable ==
    /\ phase = "running"
    /\ \E entity \in {"power", "energy"} : c' = OnUnparsable(c, entity)
    /\ service_call' = "none"
    /\ session_log' = "none"
    /\ UNCHANGED <<cfg, now, phase, saved, switch_state, switch_events,
                   enforce_pc, auto_off_pc, schedule_due, sample_cap>>
    /\ button_press' = "none"
    /\ Notify(FALSE)

\* the physical switch reports a state (it was operated by hand, or it
\* reports again): state_listener -> _on_state_changed(switch entity)
SwitchReport ==
    /\ phase = "running"
    /\ switch_events = << >>
    /\ \E s \in {"on", "off"} :
        /\ switch_state' = s
        /\ c' = OnSwitchChanged(c, cfg, s, now)
    /\ service_call' = "none"
    /\ session_log' = SessionLog(c, c')
    /\ UNCHANGED <<cfg, now, phase, saved, switch_events, enforce_pc, auto_off_pc,
                   schedule_due, sample_cap>>
    /\ button_press' = "none"
    /\ Notify(c'.auto_off_timer # c.auto_off_timer)

\* the switch's report of a state that a service call gave it is handled:
\* state_listener -> _on_state_changed(switch entity)
SwitchEventHandled ==
    /\ switch_events # << >>
    /\ c' = OnSwitchChanged(c, cfg, Head(switch_events), now)
    /\ switch_events' = Tail(switch_events)
    /\ service_call' = "none"
    /\ session_log' = SessionLog(c, c')
    /\ UNCHANGED <<cfg, now, phase, saved, switch_state,
                   enforce_pc, auto_off_pc, schedule_due, sample_cap>>
    /\ button_press' = "none"
    /\ Notify(c'.auto_off_timer # c.auto_off_timer)

\* a scheduled callback of the given kind whose time has come
DueCalls(k, kind) == { h \in k.scheduled : h[1] = kind /\ h[2] <= now }

\* the 'on' timer expires
OnTimerExpiry ==
    /\ \E h \in DueCalls(c, "on") : c' = on_timer_callback(Fired(c, h), h[3], now)
    /\ service_call' = "none"
    /\ session_log' = SessionLog(c, c')
    /\ UNCHANGED <<cfg, now, phase, saved, switch_state, switch_events,
                   enforce_pc, auto_off_pc, schedule_due, sample_cap>>
    /\ button_press' = "none"
    /\ Notify(c'.state # c.state)

\* the 'off/grace' timer expires
OffTimerExpiry ==
    /\ \E h \in DueCalls(c, "off") : c' = off_timer_callback(Fired(c, h), cfg, now)
    /\ service_call' = "none"
    /\ session_log' = SessionLog(c, c')
    /\ UNCHANGED <<cfg, now, phase, saved, switch_state, switch_events,
                   enforce_pc, auto_off_pc, schedule_due, sample_cap>>
    /\ button_press' = "none"
    /\ Notify(TRUE)

\* the auto-off timer expires: auto_off_callback, and the _auto_turn_off task
\* up to its await of switch.turn_off
AutoOffExpiry ==
    /\ auto_off_pc = "idle"
    /\ \E h \in DueCalls(c, "auto_off") : c' = [Fired(c, h) EXCEPT !.auto_off_timer = None]
    /\ auto_off_pc' = "await_turn_off"
    /\ service_call' = "turn_off"
    /\ switch_state' = "off"
    /\ switch_events' = QueueSwitchEvent(switch_events, switch_state, "off")
    /\ session_log' = SessionLog(c, c')
    /\ UNCHANGED <<cfg, now, phase, saved, enforce_pc, schedule_due, sample_cap>>
    /\ button_press' = "none"
    /\ Notify(FALSE)

\* mutant: _auto_turn_off returns after the service call without ending the
\* session
AutoTurnOffResume_KeepsSession ==
    /\ auto_off_pc = "await_turn_off"
    /\ c' = c
    /\ auto_off_pc' = "idle"
    /\ service_call' = "none"
    /\ session_log' = "none"
    /\ UNCHANGED <<cfg, now, phase, saved, switch_state, switch_events,
                   enforce_pc, schedule_due, sample_cap>>
    /\ button_press' = "none"
    /\ Notify(FALSE)

\* _auto_turn_off after its await returned
AutoTurnOffResume ==
    /\ auto_off_pc = "await_turn_off"
    /\ c' = _end_session(c, cfg, now)
    /\ auto_off_pc' = "idle"
    /\ service_call' = "none"
    /\ session_log' = SessionLog(c, c')
    /\ UNCHANGED <<cfg, now, phase, saved, switch_state, switch_events,
                   enforce_pc, schedule_due, sample_cap>>
    /\ button_press' = "none"
    /\ Notify(TRUE)

\* schedule_check (every minute): the _enforce_schedule task up to its await
ScheduleTick ==
    /\ phase = "running"
    /\ cfg.schedule_enabled
    /\ schedule_due
    /\ enforce_pc = "idle"
    /\ schedule_due' = FALSE
    /\ LET b == EnforceBegin(c, cfg, switch_state = "on", now)
       IN  /\ c' = b.c
           /\ enforce_pc' = b.pc
           /\ service_call' = b.call
           /\ switch_state' = SwitchAfter(switch_state, b.call)
           /\ switch_events' = QueueSwitchEvent(switch_events, switch_state,
                                                SwitchAfter(switch_state, b.call))
    /\ session_log' = SessionLog(c, c')
    /\ UNCHANGED <<cfg, now, phase, saved, auto_off_pc, sample_cap>>
    /\ button_press' = "none"
    /\ Notify(c'.schedule_blocked # c.schedule_blocked /\ enforce_pc' = "idle")

\* _enforce_schedule after its await returned
ScheduleResume ==
    /\ enforce_pc # "idle"
    /\ c' = EnforceResume(c, cfg, enforce_pc, now)
    /\ enforce_pc' = "idle"
    /\ service_call' = "none"
    /\ session_log' = SessionLog(c, c')
    /\ UNCHANGED <<cfg, now, phase, saved, switch_state, switch_events,
                   auto_off_pc, schedule_due, sample_cap>>
    /\ button_press' = "none"
    /\ Notify(TRUE)

\* async_stop
AsyncStop ==
    /\ phase = "running"
    /\ c' = _cancel_auto_off_timer(_cancel_off_timer(_cancel_on_timer(c)))
    /\ phase' = "stopped"
    /\ service_call' = "none"
    /\ session_log' = SessionLog(c, c')
    /\ UNCHANGED <<cfg, now, saved, switch_state, switch_events,
                   enforce_pc, auto_off_pc, schedule_due, sample_cap>>
    /\ button_press' = "none"
    /\ Notify(c.auto_off_timer # None)

\* time passes: a due timer fires and a triggered schedule_check runs before
\* the clock moves on, and an awaited service call returns before it does;
\* async_track_time_change(second=0) triggers schedule_check when a minute
\* begins
TimerDue(deadline) == deadline # None /\ deadline <= now
Tick ==
    /\ phase = "running"
    /\ now + Granularity(cfg) <= MaxTime
    /\ \A h \in c.scheduled : h[2] > now
    /\ enforce_pc = "idle"
    /\ auto_off_pc = "idle"
    /\ switch_events = << >>
    /\ ~schedule_due
    /\ now' = now + Granularity(cfg)
    /\ schedule_due' = (cfg.schedule_enabled /\ now' \div 60 > now \div 60)
    /\ service_call' = "none"
    /\ session_log' = "none"
    /\ UNCHANGED <<c, cfg, phase, saved, switch_state, switch_events,
                   enforce_pc, auto_off_pc, sample_cap>>
    /\ button_press' = "none"
    /\ Notify(FALSE)

Next ==
    \/ Restore
    \/ AsyncStart
    \/ PowerUpdate
    \/ EnergyUpdate
    \/ SwitchReport
    \/ SwitchEventHandled
    \/ OnTimerExpiry
    \/ OffTimerExpiry
    \/ AutoOffExpiry
    \/ AutoTurnOffResume
    \/ ScheduleTick
    \/ ScheduleResume
    \/ Tick

Spec == Init /\ [][Next]_vars

\* ================================================================== claims
\* the durable counters, last-session fields, history and averages
Durable(k) ==
    << k.sessions_total, k.sessions_today, k.energy_today_kwh, k.energy_total_kwh,
       k.last_session_duration_s, k.last_session_energy_kwh,
       k.last_session_peak_power_w, k.session_history,
       k.avg_session_duration_s, k.avg_session_energy_kwh >>

\* C1: every step that closes a session (start time set before, absent after)
\* less than min_duration_s after its start leaves the durable counters, the
\* last_session_* fields, the history and the averages unchanged, puts the
\* state in OFF and clears the open-session fields, whatever the energy
\* readings.
C1_ShortSessionDiscarded ==
    [][ ( /\ c.session_start_time # None
          /\ c'.session_start_time = None
          /\ now - c.session_start_time < cfg.min_duration_s )
        => ( /\ Durable(c') = Durable(c)
             /\ c'.state = STATE_OFF
             /\ c'.session_start_energy = None
             /\ c'.session_peak_power = 0 ) ]_vars

\* C1 witness: a session was just discarded although energy had been read
C1_Witness ==
    /\ session_log = "discarded"
    /\ c.current_energy # None

\* C2 (as claimed): while the schedule is blocking, no power update and no
\* expiry of an 'on' or 'off/grace' timer changes the activity state or
\* opens a session.
C2_NoTransitionWhileBlocked ==
    [][ ( /\ c.schedule_blocked
          /\ c'.schedule_blocked
          /\ (PowerUpdate \/ OnTimerExpiry \/ OffTimerExpiry) )
        => ( /\ c'.state = c.state
             /\ c'.session_start_time = c.session_start_time ) ]_vars

\* C3 (as claimed): in every reachable state the session start time is set
\* if and only if the activity state is not OFF.
C3_SessionOpenIffNotOff ==
    (c.session_start_time # None) <=> (c.state # STATE_OFF)

\* ---------------------------------------------------------------- C4
\* The scenario's device: simple mode with the default parameters
\* (active_threshold 50 W, on_delay 3 s, off_delay 5 s, min_active 10 s),
\* no schedule, no auto-off.
ScenarioData ==
    [SimpleData EXCEPT !.active_threshold_w = DEFAULT_ACTIVE_THRESHOLD_W,
                       !.on_delay_s = DEFAULT_ON_DELAY_S,
                       !.off_delay_s = DEFAULT_OFF_DELAY_S,
                       !.min_active_s = DEFAULT_MIN_ACTIVE_S,
                       !.schedule_enabled = FALSE,
                       !.auto_off_enabled = FALSE]

\* seconds since the controller was started
ScenarioTime == now - BootTime

InitScenario ==
    /\ InitCommon
    /\ cfg = Config(ScenarioData)
    /\ saved = << >>
    /\ sample_cap = None

\* the controller starts in OFF
ScenarioStart == AsyncStart /\ c'.state = STATE_OFF

\* the power sensor reports 80 W before t = 20 and 10 W from t = 20 on
ScenarioPower ==
    /\ PowerUpdate
    /\ c'.current_power = IF ScenarioTime < 20 THEN 8000 ELSE 1000

\* time passes, but not beyond t = 0 before the 80 W sample arrived, nor
\* beyond t = 20 before the 10 W sample did
ScenarioTick ==
    /\ Tick
    /\ ScenarioTime = 0 => c.current_power = 8000
    /\ ScenarioTime = 20 => c.current_power = 1000

NextScenario ==
    \/ ScenarioStart
    \/ ScenarioPower
    \/ EnergyUpdate
    \/ OnTimerExpiry
    \/ OffTimerExpiry
    \/ ScenarioTick

SpecScenario == InitScenario /\ [][NextScenario]_vars

\* C4: in the scenario the 80 W sample of t = 0 arms the 'on' timer for
\* t = 3; from its expiry the state is ACTIVE with session start 3; the 10 W
\* sample of t = 20 arms the 'off' timer for t = 25; its expiry ends the
\* session with duration 22 s, committed as the first session.
C4_Scenario ==
    phase = "running" =>
        /\ c.pending_on_timer # None =>
              c.pending_on_timer = BootTime + 3 /\ c.pending_target_state = STATE_ACTIVE
        /\ c.current_power = 8000 /\ ScenarioTime < 3 => c.pending_on_timer = BootTime + 3
        /\ ScenarioTime < 3 => c.state = STATE_OFF
        /\ 3 < ScenarioTime /\ ScenarioTime < 25 => c.state = STATE_ACTIVE
        /\ c.state = STATE_ACTIVE => c.session_start_time = BootTime + 3
        /\ c.pending_off_timer # None => c.pending_off_timer = BootTime + 25
        /\ c.current_power = 1000 /\ 20 <= ScenarioTime /\ ScenarioTime < 25 =>
              c.pending_off_timer = BootTime + 25
        /\ ScenarioTime < 25 => c.sessions_total = 0
        /\ ScenarioTime > 25 => c.sessions_total = 1
        /\ c.sessions_total <= 1
        /\ c.sessions_total = 1 =>
              /\ c.state = STATE_OFF
              /\ c.last_session_duration_s = 22
              /\ Len(c.session_history) = 1

\* C4 witness: the 'off' timer has just fired at t = 25 and committed the session
C4_Witness ==
    /\ ScenarioTime = 25
    /\ session_log = "ended"
    /\ c.sessions_total = 1

\* ---------------------------------------------------------------- C5
\* the threshold (hundredths of a watt) at or above which a sample makes the
\* OFF state arm an 'on' timer
OpeningThreshold(cf) ==
    IF cf.mode = MODE_SIMPLE THEN 100 * cf.active_threshold_w
    ELSE 100 * cf.standby_threshold_w

\* A freshly installed device (nothing persisted) all of whose power samples,
\* the bootstrap read included, stay below sample_cap, which is the active
\* threshold or the opening threshold.
InitBelowActive ==
    /\ InitCommon
    /\ cfg \in ConfigSet
    /\ saved = << >>
    /\ sample_cap \in {100 * cfg.active_threshold_w, OpeningThreshold(cfg)}

NextFresh ==
    \/ AsyncStart
    \/ PowerUpdate
    \/ EnergyUpdate
    \/ SwitchReport
    \/ SwitchEventHandled
    \/ OnTimerExpiry
    \/ OffTimerExpiry
    \/ AutoOffExpiry
    \/ AutoTurnOffResume
    \/ ScheduleTick
    \/ ScheduleResume
    \/ Tick

SpecBelowActive == InitBelowActive /\ [][NextFresh]_vars

\* no session is open, and no 'on' timer has reached its deadline
NoSessionOpened ==
    /\ c.state = STATE_OFF
    /\ c.session_start_time = None
    /\ ~TimerDue(c.pending_on_timer)

\* C5 (as claimed): while every power sample stays below active_threshold,
\* no session is opened and no 'on' timer survives to its expiry.
C5_NoSessionBelowActive == NoSessionOpened

\* C5 (amended): while every power sample stays below the opening threshold
\* (active_threshold in simple mode, standby_threshold in standby mode), no
\* session is opened and no 'on' timer survives to its expiry.
C5_NoSessionBelowOpening ==
    sample_cap <= OpeningThreshold(cfg) => NoSessionOpened

\* C5 witness: in simple mode a 10 W sample was processed and more than
\* on_delay_s has passed since the start
C5_Witness ==
    /\ sample_cap = OpeningThreshold(cfg)
    /\ cfg.mode = MODE_SIMPLE
    /\ c.current_power = 1000
    /\ now > BootTime + cfg.on_delay_s
    /\ c.state = STATE_OFF

\* ---------------------------------------------------------------- C6
\* C6 (as claimed): standby mode, ACTIVE with an off/grace timer pending and
\* the power last seen below standby_threshold: a processed power sample at
\* or above active_threshold cancels that timer, keeps the state ACTIVE,
\* keeps the session's start time and start energy, keeps tracking the peak,
\* and neither closes nor opens a session.
C6_ActivityCancelsGrace ==
    [][ ( /\ cfg.mode = MODE_STANDBY
          /\ c.state = STATE_ACTIVE
          /\ c.pending_off_timer # None
          /\ c.current_power < 100 * cfg.standby_threshold_w
          /\ ~c.schedule_blocked
          /\ PowerUpdate
          /\ c'.current_power >= 100 * cfg.active_threshold_w )
        => ( /\ c'.pending_off_timer = None
             /\ c'.state = STATE_ACTIVE
             /\ c'.session_start_time = c.session_start_time
             /\ c'.session_start_energy = c.session_start_energy
             /\ c'.session_peak_power = Max(c.session_peak_power, c'.current_power)
             /\ c'.sessions_total = c.sessions_total
             /\ c'.session_history = c.session_history ) ]_vars

\* ---------------------------------------------------------------- C7
\* C7: a step that takes the schedule from unblocked to blocked calls
\* switch.turn_off and sets the was-on flag if the switch is on, and calls
\* nothing and clears the flag if it is off; and when the enforcement that
\* called turn_off completes, the state is OFF, the flag is still set, and a
\* session that was open has been closed, committed exactly if it lasted
\* min_duration_s or more.
C7_BlockTurnsOffAndEndsSession ==
    [][ /\ ( ~c.schedule_blocked /\ c'.schedule_blocked ) =>
              IF switch_state = "on"
              THEN /\ service_call' = "turn_off"
                   /\ switch_state' = "off"
                   /\ c'.was_on_before_schedule_off
              ELSE /\ service_call' = "none"
                   /\ ~c'.was_on_before_schedule_off
        /\ ( enforce_pc = "await_turn_off" /\ enforce_pc' = "idle" ) =>
              /\ c'.state = STATE_OFF
              /\ c'.was_on_before_schedule_off
              /\ c'.schedule_blocked
              /\ c.state # STATE_OFF =>
                    /\ c.session_start_time # None
                    /\ c'.session_start_time = None
                    /\ c'.sessions_total = c.sessions_total +
                          (IF now - c.session_start_time >= cfg.min_duration_s
                           THEN 1 ELSE 0) ]_vars

\* C7 witness: the schedule has just become blocking with the switch on and
\* a session of sufficient duration open: turn_off was called, the flag is
\* set, and the session is about to be ended
C7_Witness ==
    /\ enforce_pc = "await_turn_off"
    /\ service_call = "turn_off"
    /\ c.schedule_blocked
    /\ c.was_on_before_schedule_off
    /\ c.state # STATE_OFF
    /\ now - c.session_start_time >= cfg.min_duration_s

\* ---------------------------------------------------------------- C8
\* C8: switch.turn_on is called only by a step that takes the schedule from
\* blocked to unblocked, and such a step calls it if and only if the was-on
\* flag is set; the flag is cleared when that enforcement completes; the
\* flag becomes set only at an unblocked-to-blocked step that finds the
\* switch on; so outside a blocked window (and the one restore in progress)
\* the flag is never set.
C8_RestoreIsSingleShot ==
    [][ /\ service_call' = "turn_on" =>
              c.schedule_blocked /\ ~c'.schedule_blocked
        /\ ( c.schedule_blocked /\ ~c'.schedule_blocked ) =>
              ( service_call' = "turn_on" <=> c.was_on_before_schedule_off )
        /\ ( enforce_pc = "await_turn_on" /\ enforce_pc' = "idle" ) =>
              ~c'.was_on_before_schedule_off
        /\ ( ~c.was_on_before_schedule_off /\ c'.was_on_before_schedule_off ) =>
              ( ~c.schedule_blocked /\ c'.schedule_blocked /\ switch_state = "on" )
        /\ c'.was_on_before_schedule_off =>
              ( c'.schedule_blocked \/ enforce_pc' = "await_turn_on" ) ]_vars

\* C8 witness: the schedule has just stopped blocking and the switch, on
\* when the block began, is being turned on again
C8_Witness ==
    /\ enforce_pc = "await_turn_on"
    /\ service_call = "turn_on"
    /\ ~c.schedule_blocked
    /\ c.was_on_before_schedule_off

\* ---------------------------------------------------------------- C9
\* C9 (as claimed): the day rollover is applied before an event touches
\* today's counters: a step of the running controller that commits a session
\* leaves today_date equal to the wall-clock date, so the session is counted
\* into the day on which it was committed.
C9_RolloverBeforeCommit ==
    [][ ( phase = "running" /\ c'.sessions_total = c.sessions_total + 1 )
        => c'.today_date = Date(now) ]_vars

\* --------------------------------------------------------------- C10
\* the durable-counter snapshot of a controller
Snapshot(k) ==
    << Durable(k), k.today_date >>
OpenSession(k) ==
    << k.session_start_time, k.session_start_energy, k.session_peak_power >>

\* C10 (as claimed): loading the record that get_persistence_data produces
\* into a fresh controller reproduces the durable-counter snapshot and, when
\* a session was open, its start time, start energy and peak; and dumping
\* the loaded controller yields the same record.
C10_RoundTrip ==
    phase = "running" =>
        LET record == get_persistence_data(c)
            loaded == restore_state(Controller(now), record, now)
        IN  /\ Snapshot(loaded) = Snapshot(c)
            /\ c.state # STATE_OFF => OpenSession(loaded) = OpenSession(c)
            /\ get_persistence_data(loaded) = record

\* --------------------------------------------------------------- C11
\* C11 (as claimed): when the controller is started after a record with an
\* open session was loaded, and the start leaves a session running, that
\* session has the persisted start time and start energy and a peak not
\* below the persisted one.
C11_SessionResumed ==
    [][ ( /\ AsyncStart
          /\ saved # << >>
          /\ saved[1].session_active
          /\ c.state_restored
          /\ c'.state # STATE_OFF )
        => ( /\ c'.session_start_time = FromIsoFormat(saved[1].session_start_time)
             /\ c'.session_start_energy = saved[1].session_start_energy
             /\ c'.session_peak_power >= saved[1].session_peak_power ) ]_vars

\* --------------------------------------------------------------- C12
\* C12: in every reachable state, cancelling a timer kind that has nothing
\* pending changes nothing; a second start of the 'on' timer with the
\* target of the pending one, now or later, changes nothing either (one
\* expiry, at the original deadline); and two starts in a row with the same
\* target leave the slot as the first start left it.
C12_TimerIdempotence ==
    /\ c.pending_on_timer = None => _cancel_on_timer(c) = c
    /\ c.pending_off_timer = None => _cancel_off_timer(c) = c
    /\ c.auto_off_timer = None => _cancel_auto_off_timer(c) = c
    /\ c.pending_on_timer # None =>
          _start_on_timer(c, cfg, c.pending_target_state, now) = c
    /\ \A target \in {STATE_STANDBY, STATE_ACTIVE} :
          LET c1 == _start_on_timer(c, cfg, target, now)
          IN  /\ c1.pending_on_timer # None
              /\ c1.pending_target_state = target
              /\ \A t2 \in {now, now + Granularity(cfg)} :
                    _start_on_timer(c1, cfg, target, t2) = c1

\* C12 witness: an 'on' timer armed a full delay ago is pending (a restart
\* would move its deadline), and neither an off/grace timer nor an auto-off
\* timer is
C12_Witness ==
    /\ c.pending_on_timer = now
    /\ c.pending_target_state = STATE_ACTIVE
    /\ c.pending_off_timer = None
    /\ c.auto_off_timer = None

\* --------------------------------------------------------------- C13
\* C13: the step at which the auto-off timer expires calls switch.turn_off
\* (once: the timer slot is empty afterwards); when that _auto_turn_off
\* completes, it has called nothing more, no session is open and the state
\* is OFF; and a step calls switch.turn_off only if it is such an expiry or
\* takes the schedule from unblocked to blocked, never if it is a power
\* update or the expiry of an 'on' or 'off/grace' timer.
C13_AutoOffTurnsOffOnce ==
    [][ /\ ( auto_off_pc = "idle" /\ auto_off_pc' = "await_turn_off" ) =>
              /\ TimerDue(c.auto_off_timer)
              /\ service_call' = "turn_off"
              /\ switch_state' = "off"
              /\ c'.auto_off_timer = None
        /\ ( auto_off_pc = "await_turn_off" /\ auto_off_pc' = "idle" ) =>
              /\ service_call' = "none"
              /\ c'.state = STATE_OFF
              /\ c'.session_start_time = None
              /\ c.session_start_time # None =>
                    c'.sessions_total = c.sessions_total +
                        (IF now - c.session_start_time >= cfg.min_duration_s
                         THEN 1 ELSE 0)
        /\ service_call' = "turn_off" =>
              /\ \/ ( auto_off_pc = "idle" /\ auto_off_pc' = "await_turn_off" )
                 \/ ( ~c.schedule_blocked /\ c'.schedule_blocked )
              /\ ~(PowerUpdate \/ OnTimerExpiry \/ OffTimerExpiry) ]_vars

\* C13 witness: the auto-off timer has just expired with a session open:
\* turn_off was called and the session is about to be ended
C13_Witness ==
    /\ auto_off_pc = "await_turn_off"
    /\ service_call = "turn_off"
    /\ c.auto_off_timer = None
    /\ c.state = STATE_ACTIVE
    /\ ~c.schedule_blocked

\* --------------------------------------------------------------- C14
\* The controller with its shutdown: async_unload_entry may call async_stop
\* whenever the controller runs, also while one of its tasks awaits a
\* service call or a switch event's handler task has not run yet.
NextStop ==
    \/ Next
    \/ AsyncStop

SpecStop == Init /\ [][NextStop]_vars

\* C14 (as claimed): when async_stop has returned no timer of any kind is
\* pending, and from then on no step changes the controller's state or arms
\* a timer.
C14_NothingAfterStop ==
    [][ /\ phase' = "stopped" /\ phase = "running" =>
              /\ c'.pending_on_timer = None
              /\ c'.pending_off_timer = None
              /\ c'.auto_off_timer = None
        /\ phase = "stopped" => c' = c ]_vars

\* --------------------------------------------------------------- C15
\* C15: in every reachable state sessions_today <= sessions_total.
C15_TodayAtMostTotal ==
    c.sessions_today <= c.sessions_total

\* C15 witness: a record with one session of an earlier day was restored,
\* the day rollover cleared today's counter, and one session has been
\* committed since
C15_Witness ==
    /\ c.state_restored
    /\ c.today_date = Date(now)
    /\ c.today_date # DateFromIsoFormat(saved[1].today_date)
    /\ c.sessions_today = 1
    /\ c.sessions_total = 2

\* --------------------------------------------------------------- C16
\* The controller of an earlier run under the default simple configuration
\* after n sessions, back to back from the first second of day 0, each
\* twice the minimum duration long and each with one more unit of energy
RECURSIVE PriorRun(_)
PriorRun(n) ==
    IF n = 0 THEN OnEnergyChanged(Controller(0), 0)
    ELSE LET len == 2 * DEFAULT_MIN_ACTIVE_S
             p == PriorRun(n - 1)
             a == _transition_to([p EXCEPT !.current_power = 8000],
                                 STATE_ACTIVE, len * (n - 1))
         IN  _end_session(OnEnergyChanged(a, p.current_energy + 5 * n),
                          Config(ScenarioData), len * n)

\* A device whose persisted record holds a history that is full, or one
\* short of full
InitHistory ==
    /\ InitCommon
    /\ cfg \in ConfigSet
    /\ saved \in { <<get_persistence_data(PriorRun(SESSION_HISTORY_SIZE - 1))>>,
                   <<get_persistence_data(PriorRun(SESSION_HISTORY_SIZE))>> }
    /\ sample_cap = None

SpecHistory == InitHistory /\ [][Next]_vars

\* C16: the history never holds more than SESSION_HISTORY_SIZE records and
\* is ordered by end time, latest first; a step that commits a session puts
\* that session's record first and keeps the former records behind it in
\* their order, all of them when there is room and all but the oldest when
\* the history was full; a step that commits nothing (a discard included)
\* leaves the history as it is, unless it restores it.
C16_HistoryBounded ==
    [][ LET h == c.session_history
            h2 == c'.session_history
            restoring == ~c.state_restored /\ c'.state_restored
        IN  /\ Len(h2) <= SESSION_HISTORY_SIZE
            /\ \A i \in 1 .. Len(h2) - 1 :
                  FromIsoFormat(h2[i].end) > FromIsoFormat(h2[i + 1].end)
            /\ ( ~restoring /\ c'.sessions_total = c.sessions_total + 1 ) =>
                  /\ h2 # << >>
                  /\ h2[1].start = IsoFormat(c.session_start_time)
                  /\ h2[1].end = IsoFormat(now)
                  /\ h2[1].duration_s = now - c.session_start_time
                  /\ Tail(h2) = IF Len(h) = SESSION_HISTORY_SIZE
                                THEN SubSeq(h, 1, SESSION_HISTORY_SIZE - 1)
                                ELSE h
            /\ ( ~restoring /\ c'.sessions_total = c.sessions_total ) => h2 = h
            /\ ~restoring => c'.sessions_total \in {c.sessions_total, c.sessions_total + 1}
      ]_vars

\* C16 witness: a session was just committed into a history that was full:
\* eleven sessions were committed and ten records are kept
C16_Witness ==
    /\ session_log = "ended"
    /\ c.sessions_total = SESSION_HISTORY_SIZE + 1
    /\ Len(c.session_history) = SESSION_HISTORY_SIZE
    /\ FromIsoFormat(c.session_history[1].end) = now

\* --------------------------------------------------------- C17, C18
\* A freshly installed device whose sensors may also report states that are
\* unavailable, unknown or not numbers
InitSensors ==
    /\ InitCommon
    /\ cfg \in ConfigSet
    /\ saved = << >>
    /\ sample_cap = None

NextSensors ==
    \/ NextFresh
    \/ SensorUnavailable
    \/ SensorUnparsable

SpecSensors == InitSensors /\ [][NextSensors]_vars

\* C17 (as claimed): a step that commits a session while the energy sensor
\* is unavailable, or no energy reading exists for the session's start or
\* its end, counts the session, records its duration and peak, records its
\* energy as 0 and leaves energy_today_kwh and energy_total_kwh unchanged.
C17_NoEnergyCommitsZero ==
    [][ ( /\ c'.sessions_total = c.sessions_total + 1
          /\ \/ ~c.energy_available
             \/ c.current_energy = None
             \/ c.session_start_energy = None )
        => ( /\ c'.sessions_today = c.sessions_today + 1
             /\ c'.last_session_duration_s = now - c.session_start_time
             /\ c'.last_session_peak_power_w = Round1(c.session_peak_power)
             /\ c'.last_session_energy_kwh = 0
             /\ c'.energy_today_kwh = c.energy_today_kwh
             /\ c'.energy_total_kwh = c.energy_total_kwh ) ]_vars

\* C18: a power or energy update whose value is unavailable, unknown or not
\* a number changes nothing of the controller but the availability flags,
\* and at most one of them.
C18_BadUpdateSkipped ==
    [][ ( SensorUnavailable \/ SensorUnparsable )
        => ( /\ [c' EXCEPT !.power_available = c.power_available,
                           !.energy_available = c.energy_available] = c
             /\ \/ c'.power_available = c.power_available
                \/ c'.energy_available = c.energy_available ) ]_vars

\* C18 witness: the power sensor went unavailable while a session was open
\* and an off/grace timer was pending; both are still as they were
C18_Witness ==
    /\ ~c.power_available
    /\ c.state # STATE_OFF
    /\ c.session_start_time # None
    /\ c.pending_off_timer # None

\* --------------------------------------------------------------- C19
\* the persisted fields that hold a count or an amount, and those that hold
\* a number or None
CounterFields ==
    {"sessions_total", "sessions_today", "energy_today_kwh", "energy_total_kwh"}
OptionalFields ==
    {"last_session_duration_s", "last_session_energy_kwh",
     "last_session_peak_power_w", "avg_session_duration_s",
     "avg_session_energy_kwh", "session_start_energy", "session_peak_power"}
TextFields == {"today_date", "session_start_time"}

\* the record of an earlier run that was stopped with a session open, one
\* field of which is absent or malformed
DamagedRecords(cf) ==
    LET record == get_persistence_data(PriorOpen(cf))
    IN  { [record EXCEPT ![f] = v] :
            f \in CounterFields \cup OptionalFields, v \in {Missing, Malformed} }
        \cup { [record EXCEPT ![f] = v] : f \in TextFields, v \in {NoneStr, MalformedStr} }
        \cup { [record EXCEPT !.session_history = v] : v \in {<< >>, MalformedHistory} }

InitRestore ==
    /\ InitCommon
    /\ cfg \in ConfigSet
    /\ saved \in { <<r>> : r \in DamagedRecords(cfg) }
    /\ sample_cap = None

NextRestore ==
    \/ Restore
    \/ AsyncStart

SpecRestore == InitRestore /\ [][NextRestore]_vars

\* C19 (as claimed): restoring a record one field of which is absent or
\* malformed completes, and afterwards every field of the controller holds
\* the record's value where that is well-formed and the field's default
\* (counter 0, date today, timestamp absent, number absent, history empty)
\* where it is not.
C19_RestoreTolerant ==
    [][ Restore =>
        LET data == saved[1]
            good == get_persistence_data(PriorOpen(cfg))
            Bad(f) == data[f] # good[f]
        IN  /\ c'.state_restored
            /\ \A f \in CounterFields : c'[f] = IF Bad(f) THEN 0 ELSE data[f]
            /\ \A f \in {"last_session_duration_s", "last_session_energy_kwh",
                         "last_session_peak_power_w", "session_start_energy"} :
                  c'[f] = IF Bad(f) THEN None ELSE data[f]
            /\ c'.session_peak_power =
                  IF Bad("session_peak_power") THEN 0 ELSE data.session_peak_power
            /\ c'.today_date =
                  IF Bad("today_date") THEN Date(now)
                  ELSE DateFromIsoFormat(data.today_date)
            /\ c'.session_start_time =
                  IF Bad("session_start_time") THEN None
                  ELSE FromIsoFormat(data.session_start_time)
            /\ IF Bad("session_history") THEN Len(c'.session_history) = 0
               ELSE c'.session_history = data.session_history
            /\ \A f \in {"avg_session_duration_s", "avg_session_energy_kwh"} :
                  ~Bad(f) /\ ~Bad("session_history") => c'[f] = data[f] ]_vars

\* --------------------------------------------------------------- C20
\* BaseEntity.async_added_to_hass: an entity registers its callback (the
\* callbacks are numbered, a new one takes the lowest number not in use)
RegisterListener ==
    /\ Len(entity_listeners) < MaxListeners
    /\ \E id \in 1 .. MaxListeners, kind \in {"returns", "raises"} :
        /\ \A i \in 1 .. Len(entity_listeners) : entity_listeners[i][1] # id
        /\ \A k \in 1 .. id - 1 :
              \E i \in 1 .. Len(entity_listeners) : entity_listeners[i][1] = k
        /\ entity_listeners' = register_entity_listener(entity_listeners, <<id, kind>>)
    /\ notified' = NotNotified
    /\ button_press' = "none"
    /\ service_call' = "none"
    /\ session_log' = "none"
    /\ UNCHANGED <<c, cfg, now, phase, saved, switch_state, switch_events,
                   enforce_pc, auto_off_pc, schedule_due, sample_cap>>

\* BaseEntity.async_will_remove_from_hass: an entity unregisters its callback
UnregisterListener ==
    /\ \E i \in 1 .. Len(entity_listeners) :
        entity_listeners' = unregister_entity_listener(entity_listeners, entity_listeners[i])
    /\ notified' = NotNotified
    /\ button_press' = "none"
    /\ service_call' = "none"
    /\ session_log' = "none"
    /\ UNCHANGED <<c, cfg, now, phase, saved, switch_state, switch_events,
                   enforce_pc, auto_off_pc, schedule_due, sample_cap>>

\* a freshly installed simple-mode device without schedule and auto-off,
\* whose entities register and unregister listeners
NotifyData ==
    [SimpleData EXCEPT !.schedule_enabled = FALSE, !.auto_off_enabled = FALSE]

InitNotify ==
    /\ InitCommon
    /\ cfg = Config(NotifyData)
    /\ saved = << >>
    /\ sample_cap = None

NextNotify ==
    \/ RegisterListener
    \/ UnregisterListener
    \/ AsyncStart
    \/ PowerUpdate
    \/ OnTimerExpiry
    \/ OffTimerExpiry
    \/ Tick

SpecNotify == InitNotify /\ [][NextNotify]_vars

\* C20: no exception ever leaves _notify_entities; a step that changes the
\* activity state or ends a session calls every registered listener, in
\* order of registration, whichever of them raise; a notification calls
\* the registered listeners and no others and leaves the list of listeners
\* as it is; and a step of the controller with raising listeners leaves
\* the controller as the same step without them does.
C20_ListenerFailureContained ==
    [][ /\ ~notified'.raised
        /\ ( OffTimerExpiry \/ c'.state # c.state ) =>
              notified'.called = entity_listeners
        /\ notified'.called # << >> =>
              /\ notified'.called = entity_listeners
              /\ entity_listeners' = entity_listeners
        /\ OnTimerExpiry =>
              c' = on_timer_callback(Fired(c, OnHandle(c)), c.pending_target_state, now)
        /\ OffTimerExpiry =>
              c' = off_timer_callback(Fired(c, OffHandle(c)), cfg, now) ]_vars

\* C20 witness: a session was just committed and of the listeners notified
\* of it the first raised and a later one was still called
C20_Witness ==
    /\ session_log = "ended"
    /\ Len(notified.called) >= 2
    /\ notified.called = entity_listeners
    /\ notified.called[1][2] = "raises"
    /\ notified.called[2][2] = "returns"


\* --------------------------------------------------------------- C21
\* the methods AdvancedSwitchController defines that change its fields; it
\* defines no reset_all_counters and no reset_today_counters
ControllerMethods ==
    {"restore_state", "async_start", "async_stop", "_on_state_changed",
     "_enforce_schedule", "_auto_turn_off"}

\* ResetAllCountersButton.async_press / ResetTodayCountersButton.async_press /
\* async_step_reset: "self._ctrl.<method>()".  The attribute lookup raises
\* AttributeError for a method the controller does not define, before
\* anything is changed.
async_press(k, method) ==
    IF method \in ControllerMethods
    THEN [ c |-> k, raised |-> "none" ]
    ELSE [ c |-> k, raised |-> "AttributeError" ]

\* the "reset all counters" button is pressed
ResetAllPress ==
    /\ phase = "running"
    /\ c' = async_press(c, "reset_all_counters").c
    /\ service_call' = "none"
    /\ session_log' = "none"
    /\ UNCHANGED <<cfg, now, phase, saved, switch_state, switch_events,
                   enforce_pc, auto_off_pc, schedule_due, sample_cap>>
    /\ button_press' = "reset_all_counters"
    /\ Notify(FALSE)

\* the "reset today's counters" button is pressed
ResetTodayPress ==
    /\ phase = "running"
    /\ c' = async_press(c, "reset_today_counters").c
    /\ service_call' = "none"
    /\ session_log' = "none"
    /\ UNCHANGED <<cfg, now, phase, saved, switch_state, switch_events,
                   enforce_pc, auto_off_pc, schedule_due, sample_cap>>
    /\ button_press' = "reset_today_counters"
    /\ Notify(FALSE)

\* a simple-mode device without schedule and auto-off, freshly installed or
\* with the record of an earlier run, whose reset buttons are pressed
InitReset ==
    /\ InitCommon
    /\ cfg = Config(NotifyData)
    /\ saved \in SavedChoices(cfg)
    /\ sample_cap = None

NextReset ==
    \/ Restore
    \/ AsyncStart
    \/ PowerUpdate
    \/ EnergyUpdate
    \/ OnTimerExpiry
    \/ OffTimerExpiry
    \/ Tick
    \/ ResetAllPress
    \/ ResetTodayPress

SpecReset == InitReset /\ [][NextReset]_vars

\* C21 (as claimed): a press of "reset all counters" leaves every durable
\* counter zero, the last-session values and averages absent and the history
\* empty; a press of "reset today's counters" leaves sessions_today and
\* energy_today_kwh zero and sessions_total, energy_total_kwh, the
\* last-session values and the history as they were.
C21_ResetOperations ==
    [][ /\ ResetAllPress =>
              /\ c'.sessions_total = 0
              /\ c'.sessions_today = 0
              /\ c'.energy_today_kwh = 0
              /\ c'.energy_total_kwh = 0
              /\ c'.session_history = << >>
        /\ ResetTodayPress =>
              /\ c'.sessions_today = 0
              /\ c'.energy_today_kwh = 0
              /\ c'.sessions_total = c.sessions_total
              /\ c'.energy_total_kwh = c.energy_total_kwh
              /\ c'.last_session_duration_s = c.last_session_duration_s
              /\ c'.last_session_energy_kwh = c.last_session_energy_kwh
              /\ c'.last_session_peak_power_w = c.last_session_peak_power_w
              /\ c'.session_history = c.session_history ]_vars


\* --------------------------------------------------------------- C22
\* the state property: the displayed state
state(k) ==
    IF k.schedule_blocked THEN STATE_BLOCKED ELSE k.state

\* C22 (as claimed): the displayed state is BLOCKED exactly when the schedule
\* blocks and is the activity state otherwise; and a step into, within or
\* out of the blocked condition leaves the activity state as it was, so that
\* the state displayed after the unblock is the one held when the block began.
C22_BlockedIsDisplayOnly ==
    [][ /\ (state(c') = STATE_BLOCKED) <=> c'.schedule_blocked
        /\ ~c'.schedule_blocked => state(c') = c'.state
        /\ ( c.schedule_blocked \/ c'.schedule_blocked ) => c'.state = c.state
        /\ ( c.schedule_blocked /\ ~c'.schedule_blocked ) => state(c') = c.state ]_vars


\* --------------------------------------------------------------- C23
\* the scheduled callbacks of a kind
CallsOfKind(k, kind) == { h \in k.scheduled : h[1] = kind }

\* C23: after every step at most one callback of each timer kind is
\* scheduled, and a scheduled callback is the one its kind's slot holds
\* (with, for the 'on' kind, the slot's target); and a step that replaces a
\* pending 'on' timer by one with another target leaves the former callback
\* cancelled and the new one scheduled.
C23_OneTimerPerKind ==
    [][ /\ \A kind \in {"on", "off", "auto_off"} : Cardinality(CallsOfKind(c', kind)) <= 1
        /\ \A h \in c'.scheduled :
              h = IF h[1] = "on" THEN OnHandle(c')
                  ELSE IF h[1] = "off" THEN OffHandle(c')
                  ELSE AutoOffHandle(c')
        /\ ( /\ c.pending_on_timer # None
             /\ c'.pending_on_timer # None
             /\ c'.pending_target_state # c.pending_target_state ) =>
              /\ OnHandle(c) \in c.scheduled
              /\ OnHandle(c) \notin c'.scheduled
              /\ OnHandle(c') \in c'.scheduled ]_vars

\* C23 witness: a timer of each kind is scheduled at once: in ACTIVE the
\* grace timer runs, an 'on' timer towards STANDBY was armed after it, and
\* the auto-off timer runs
C23_Witness ==
    /\ Cardinality(c.scheduled) = 3
    /\ OnHandle(c) \in c.scheduled
    /\ OffHandle(c) \in c.scheduled
    /\ AutoOffHandle(c) \in c.scheduled
    /\ c.state = STATE_ACTIVE
    /\ c.pending_target_state = STATE_STANDBY


\* --------------------------------------------------------------- C24
\* the delay of the off/grace timer and the threshold below which a sample
\* arms it
OffDelay(cf) ==
    IF cf.mode = MODE_SIMPLE THEN cf.off_delay_s ELSE cf.session_end_grace_s
OffThreshold(cf) ==
    IF cf.mode = MODE_SIMPLE THEN ActiveThreshold(cf) ELSE StandbyThreshold(cf)

\* C24: the off/grace timer is armed only by a power sample below the
\* threshold, for its delay after that sample; while it is pending no step
\* (hence no further sample) moves its deadline; and it expires at that
\* deadline, neither earlier nor later.
C24_FirstGraceTimerWins ==
    [][ /\ ( c.pending_off_timer = None /\ c'.pending_off_timer # None ) =>
              /\ PowerUpdate
              /\ c'.current_power < OffThreshold(cfg)
              /\ c'.pending_off_timer = now + OffDelay(cfg)
        /\ ( c.pending_off_timer # None /\ c'.pending_off_timer # None ) =>
              c'.pending_off_timer = c.pending_off_timer
        /\ OffTimerExpiry => now = c.pending_off_timer
        /\ c.pending_off_timer # None => now' <= c.pending_off_timer ]_vars

\* C24 witness: an off/grace timer armed a full delay ago, with the clock
\* observed in between, is pending and due now while the power is still
\* below the threshold
C24_Witness ==
    /\ c.pending_off_timer = now
    /\ OffDelay(cfg) > Granularity(cfg)
    /\ c.current_power < OffThreshold(cfg)
    /\ c.state = STATE_ACTIVE
    /\ c.session_start_time # None


\* --------------------------------------------------------------- C25
\* a step takes the activity state from OFF to STANDBY or ACTIVE
LeavesOff == c.state = STATE_OFF /\ c'.state \in {STATE_STANDBY, STATE_ACTIVE}

\* such a step is an 'on'-timer expiry or the bootstrap read, and sets the
\* session's start time, start energy and peak
SessionStarted ==
    /\ OnTimerExpiry \/ AsyncStart
    /\ c'.session_start_time = now
    /\ c'.session_start_energy = c'.current_energy
    /\ c'.session_peak_power = c'.current_power

\* C25 (as claimed): every step from OFF to STANDBY or ACTIVE starts a
\* session and, if auto-off is enabled, leaves an auto-off timer armed.
C25_TransitionArmsAutoOff ==
    [][ LeavesOff =>
          /\ SessionStarted
          /\ cfg.auto_off_enabled => c'.auto_off_timer # None ]_vars

\* C25 (amended): every step from OFF to STANDBY or ACTIVE starts a session;
\* the transition does not touch the auto-off timer: an 'on'-timer expiry
\* leaves it as it was, and the start of the controller arms it exactly
\* if auto-off is enabled and the switch is found on.
C25_TransitionStartsSession ==
    [][ LeavesOff =>
          /\ SessionStarted
          /\ OnTimerExpiry => c'.auto_off_timer = c.auto_off_timer
          /\ AsyncStart => ( c'.auto_off_timer # None
                               <=> cfg.auto_off_enabled /\ switch_state' = "on" ) ]_vars

\* C25 witness: an 'on' timer has just expired and opened a session with
\* auto-off enabled, the switch off and no auto-off timer armed
C25_Witness ==
    /\ session_log = "started"
    /\ now > BootTime
    /\ c.state = STATE_ACTIVE
    /\ c.session_start_time = now
    /\ c.current_energy # None
    /\ cfg.auto_off_enabled
    /\ switch_state = "off"
    /\ c.auto_off_timer = None


\* --------------------------------------------------------------- C26
\* C26: every step that takes the activity state from STANDBY or ACTIVE to
\* OFF closes the session that was open (start time, start energy and peak
\* are cleared), commits it if it lasted min_duration_s or more and else
\* leaves the counters and the history untouched, and leaves no auto-off
\* timer pending or scheduled.
C26_OffEndsSession ==
    [][ ( c.state # STATE_OFF /\ c'.state = STATE_OFF ) =>
          /\ c.session_start_time # None
          /\ c'.session_start_time = None
          /\ c'.session_start_energy = None
          /\ c'.session_peak_power = 0
          /\ c'.auto_off_timer = None
          /\ CallsOfKind(c', "auto_off") = {}
          /\ IF now - c.session_start_time >= cfg.min_duration_s
             THEN /\ c'.sessions_total = c.sessions_total + 1
                  /\ c'.last_session_duration_s = now - c.session_start_time
                  /\ session_log' = "ended"
             ELSE /\ Durable(c') = Durable(c)
                  /\ session_log' = "discarded" ]_vars

\* C26 witness: the off/grace timer has just ended and committed a session
\* while the switch was on with auto-off enabled: no auto-off timer is left
C26_Witness ==
    /\ session_log = "ended"
    /\ c.state = STATE_OFF
    /\ c.session_start_time = None
    /\ switch_state = "on"
    /\ cfg.auto_off_enabled
    /\ auto_off_pc = "idle"
    /\ enforce_pc = "idle"
    /\ c.auto_off_timer = None


\* --------------------------------------------------------------- C27
\* a step takes the activity state from STANDBY to ACTIVE, or back
StandbyToActive == c.state = STATE_STANDBY /\ c'.state = STATE_ACTIVE
ActiveToStandby == c.state = STATE_ACTIVE /\ c'.state = STATE_STANDBY

\* what such a step leaves alone whatever the day
SessionBoundaryFrame ==
    /\ c'.session_start_time = c.session_start_time
    /\ c'.session_start_energy = c.session_start_energy
    /\ c'.sessions_total = c.sessions_total
    /\ c'.energy_total_kwh = c.energy_total_kwh
    /\ c'.session_history = c.session_history

SwitchReports(s) ==
    \/ SwitchReport /\ switch_state' = s
    \/ SwitchEventHandled /\ Head(switch_events) = s

\* the step calls _end_session
EndsSession ==
    \/ OffTimerExpiry
    \/ AutoTurnOffResume
    \/ ScheduleResume /\ enforce_pc = "await_turn_off" /\ c.state # STATE_OFF

AwaitingCommand == enforce_pc # "idle" \/ auto_off_pc # "idle"

\* C29 (as claimed): while a switch command issued by _enforce_schedule or
\* by _auto_turn_off awaits its acknowledgment, the only step that changes
\* the controller is the continuation of a coroutine that awaits: no sensor
\* or switch update, timer expiry or schedule tick runs in between.
C29_NothingRunsDuringAwait ==
    [][ AwaitingCommand =>
          \/ c' = c
          \/ ScheduleResume
          \/ AutoTurnOffResume ]_vars


\* --------------------------------------------------------------- C30
\* power samples that are no multiple of 0.1 W among them: 0 W, 10 W, 80.04 W
FinePowerValues == {0, 1000, 8004}

\* a freshly installed standby-mode device without schedule and auto-off
\* that smooths the power over two minutes
PeakData ==
    [StandbyData EXCEPT !.schedule_enabled = FALSE, !.auto_off_enabled = FALSE,
                        !.power_smoothing_s = 120]

InitPeak ==
    /\ InitCommon
    /\ cfg = Config(PeakData)
    /\ saved = << >>
    /\ sample_cap = None

\* state_listener -> _on_state_changed(power entity, a number), while the
\* smoothing window holds fewer than MaxReadings readings
FinePowerUpdate ==
    /\ Len(SmoothingWindow(c, cfg, now)) < MaxReadings
    /\ PowerSample(FinePowerValues)

NextPeak ==
    \/ AsyncStart
    \/ FinePowerUpdate
    \/ OnTimerExpiry
    \/ OffTimerExpiry
    \/ Tick

SpecPeak == InitPeak /\ [][NextPeak]_vars

\* the peak of the open session follows the raw power: the step that opens
\* the session sets it to the raw power of that instant, a power update
\* during the session raises it to the sample if that is higher, and no
\* other step during the session changes it
PeakFollowsRawPower ==
    /\ LeavesOff => c'.session_peak_power = c'.current_power
    /\ ( c.state # STATE_OFF /\ c'.state # STATE_OFF ) =>
          c'.session_peak_power =
              IF FinePowerUpdate THEN Max(c.session_peak_power, c'.current_power)
              ELSE c.session_peak_power

\* C30 (as claimed): the peak of the open session is the maximum of the raw
\* power at its start and of every raw sample since, and a step that
\* commits the session records that maximum as last_session_peak_power_w
\* and in the history record.
C30_PeakIsRawMaximum ==
    [][ /\ PeakFollowsRawPower
        /\ c'.sessions_total = c.sessions_total + 1 =>
              /\ c'.last_session_peak_power_w = c.session_peak_power
              /\ c'.session_history[1].peak_power_w = c.session_peak_power ]_vars

\* C30 (amended): the peak of the open session is the maximum of the raw
\* power at its start and of every raw sample since, and a step that
\* commits the session records that maximum rounded to 0.1 W as
\* last_session_peak_power_w and in the history record.
C30_PeakIsRoundedRawMaximum ==
    [][ /\ PeakFollowsRawPower
        /\ c'.sessions_total = c.sessions_total + 1 =>
              /\ c'.last_session_peak_power_w = Round1(c.session_peak_power)
              /\ c'.session_history[1].peak_power_w = Round1(c.session_peak_power) ]_vars

\* C30 witness: a session opened by an 'on' timer was committed with the
\* peak 80.0 W, recorded for the one 80.04 W sample among lower ones, the
\* last of which was 0 W
C30_Witness ==
    /\ session_log = "ended"
    /\ FromIsoFormat(c.session_history[1].start) > BootTime
    /\ c.last_session_peak_power_w = 8000
    /\ c.session_history[1].peak_power_w = 8000
    /\ c.current_power = 0


\* --------------------------------------------------------------- C31
\* the instant at which the energy meter of the scenario starts over
MeterResetTime == BootTime + 120

\* the reading of an energy meter (units of 0.0002 kWh) that starts over at
\* MeterResetTime
MeterReading(t) == IF t < MeterResetTime THEN 10 ELSE 3

\* async_start, the energy sensor holding the meter's reading
MeterStart == AsyncStart /\ c'.current_energy = MeterReading(now)

\* state_listener -> _on_state_changed(energy entity, the meter's reading)
MeterUpdate == EnergyUpdate /\ c'.current_energy = MeterReading(now)

\* A freshly installed device on a meter that starts over
InitMeter ==
    /\ InitCommon
    /\ cfg \in ConfigSet
    /\ saved = << >>
    /\ sample_cap = None

NextMeter ==
    \/ MeterStart
    \/ PowerUpdate
    \/ MeterUpdate
    \/ SwitchReport
    \/ SwitchEventHandled
    \/ OnTimerExpiry
    \/ OffTimerExpiry
    \/ AutoOffExpiry
    \/ AutoTurnOffResume
    \/ ScheduleTick
    \/ ScheduleResume
    \/ Tick

SpecMeter == InitMeter /\ [][NextMeter]_vars

\* the energy of the session that a step commits, both readings known:
\* the last reading less the reading at the start, 0 if that is negative
CommittedEnergy(k) ==
    IF k.current_energy >= k.session_start_energy
    THEN k.current_energy - k.session_start_energy ELSE 0

\* C31: a step that commits a session whose start and end readings are both
\* known adds max(0, end reading - start reading) to energy_total_kwh and to
\* energy_today_kwh and records that amount, rounded to 0.001 kWh, as the
\* session's energy; no commit records a negative energy or decreases
\* energy_total_kwh or energy_today_kwh.
C31_EnergyFlooredAtZero ==
    [][ c'.sessions_total = c.sessions_total + 1 =>
          /\ c'.energy_total_kwh >= c.energy_total_kwh
          /\ c'.energy_today_kwh >= c.energy_today_kwh
          /\ c'.last_session_energy_kwh >= 0
          /\ c'.session_history[1].energy_kwh = c'.last_session_energy_kwh
          /\ ( c.current_energy # None /\ c.session_start_energy # None ) =>
                /\ c'.energy_total_kwh = c.energy_total_kwh + CommittedEnergy(c)
                /\ c'.energy_today_kwh = c.energy_today_kwh + CommittedEnergy(c)
                /\ c'.last_session_energy_kwh = Round3(CommittedEnergy(c)) ]_vars

\* C31 witness: a session that started before the meter started over, hence
\* with the start reading 10, was committed with the end reading 3 and the
\* energy 0, and the totals are those of before
C31_Witness ==
    /\ session_log = "ended"
    /\ FromIsoFormat(c.session_history[1].start) < MeterResetTime
    /\ c.current_energy = 3
    /\ c.last_session_energy_kwh = 0
    /\ c.session_history[1].energy_kwh = 0
    /\ c.energy_total_kwh = 0
    /\ c.energy_today_kwh = 0


\* --------------------------------------------------------------- C32
\* times of day (seconds after midnight, whole minutes) of the shortened day
ScheduleTimes == { 60 * m : m \in 0 .. (DayLen \div 60) - 1 }

\* allowed-day lists: every day, the day of the start, the day after, no day
ScheduleDaySets == { 0 .. 6, {Weekday(BootTime)}, {Weekday(BootTime + DayLen)}, {} }

\* entry.data of a standby-mode device without auto-off, for every schedule
ScheduleData ==
    { [StandbyData EXCEPT !.auto_off_enabled = FALSE,
                          !.schedule_enabled = enabled,
                          !.schedule_start = start,
                          !.schedule_end = end,
                          !.schedule_days = days] :
        enabled \in BOOLEAN, start \in ScheduleTimes, end \in ScheduleTimes,
        days \in ScheduleDaySets }

\* a freshly installed device with any of these schedules
InitSchedule ==
    /\ InitCommon
    /\ cfg \in { Config(d) : d \in ScheduleData }
    /\ saved = << >>
    /\ sample_cap = None

NextSchedule ==
    \/ AsyncStart
    \/ SwitchReport
    \/ SwitchEventHandled
    \/ ScheduleTick
    \/ ScheduleResume
    \/ Tick

SpecSchedule == InitSchedule /\ [][NextSchedule]_vars

\* the instants of one week, every half minute
WeekInstants == { 30 * k : k \in 0 .. (7 * DayLen) \div 30 - 1 }

\* the reference predicate: the weekday is allowed and the time of day is in
\* the range, which is start <= time <= end when start <= end and
\* time >= start or time <= end otherwise
WithinReference(weekday, time_of_day, start, end, days) ==
    /\ weekday \in days
    /\ IF start <= end THEN start <= time_of_day /\ time_of_day <= end
       ELSE time_of_day >= start \/ time_of_day <= end

\* C32: for the configured schedule and every instant of a week the
\* schedule check equals the reference predicate when the schedule is
\* enabled and is true when it is disabled; and once the schedule check of
\* the current minute has run, the controller is blocked exactly when the
\* schedule is enabled and the reference predicate is false (never when the
\* schedule is disabled).
C32_ScheduleCheckIsReference ==
    /\ \A t \in WeekInstants :
          _is_within_schedule(cfg, t) =
              ( cfg.schedule_enabled =>
                  WithinReference(Weekday(t), TimeOfDay(t), cfg.schedule_start,
                                  cfg.schedule_end, cfg.schedule_days) )
    /\ ( phase = "running" /\ ~schedule_due ) =>
          c.schedule_blocked =
              ( /\ cfg.schedule_enabled
                /\ ~WithinReference(Weekday(now), TimeOfDay(now), cfg.schedule_start,
                                    cfg.schedule_end, cfg.schedule_days) )

\* C32 witness: an overnight schedule (start after end) on an allowed day
\* blocks the controller at an instant between its end and its start, after
\* having allowed an earlier instant of the run
C32_Witness ==
    /\ phase = "running" /\ ~schedule_due
    /\ cfg.schedule_enabled
    /\ cfg.schedule_start > cfg.schedule_end
    /\ Weekday(now) \in cfg.schedule_days
    /\ cfg.schedule_end < TimeOfDay(now) /\ TimeOfDay(now) < cfg.schedule_start
    /\ c.schedule_blocked
    /\ now > BootTime /\ TimeOfDay(BootTime) <= cfg.schedule_end


\* --------------------------------------------------------------- C33
\* C33: standby mode, state STANDBY, an off/grace timer pending: a processed
\* power sample in the standby band leaves the timer, its deadline and the
\* state as they are; a processed sample at or above active_threshold
\* cancels the timer and makes the state ACTIVE in the same step; the clock
\* does not pass the deadline of the pending timer, and its expiry makes the
\* state OFF and closes the session.
C33_BandKeepsGraceTimer ==
    [][ ( /\ cfg.mode = MODE_STANDBY
          /\ c.state = STATE_STANDBY
          /\ c.pending_off_timer # None )
        => /\ ( /\ PowerUpdate
                /\ ~c.schedule_blocked
                /\ c'.current_power >= StandbyThreshold(cfg)
                /\ c'.current_power < ActiveThreshold(cfg) ) =>
                   /\ c'.pending_off_timer = c.pending_off_timer
                   /\ OffHandle(c) \in c'.scheduled
                   /\ c'.state = STATE_STANDBY
           /\ ( /\ PowerUpdate
                /\ ~c.schedule_blocked
                /\ c'.current_power >= ActiveThreshold(cfg) ) =>
                   /\ c'.pending_off_timer = None
                   /\ CallsOfKind(c', "off") = {}
                   /\ c'.state = STATE_ACTIVE
           /\ now' <= c.pending_off_timer
           /\ OffTimerExpiry =>
                   /\ c'.state = STATE_OFF
                   /\ c'.session_start_time = None ]_vars


\* --------------------------------------------------------------- C34
\* entry.data of a standby-mode device whose OFF -> on delay (120 s) is
\* longer than its ACTIVE -> STANDBY delay (60 s)
DelayData == [StandbyData EXCEPT !.on_delay_s = 120, !.active_standby_delay_s = 60]

\* a freshly installed device with these delays
InitDelay ==
    /\ InitCommon
    /\ cfg = Config(DelayData)
    /\ saved = << >>
    /\ sample_cap = None

SpecDelay == InitDelay /\ [][NextFresh]_vars

\* the step arms an 'on' timer (a new one, or one that replaces another)
ArmsOnTimer ==
    /\ c'.pending_on_timer # None
    /\ OnHandle(c') \notin c.scheduled

\* an 'on' timer armed in OFF runs for on_delay_s, one armed in ACTIVE (to
\* drop to STANDBY) for active_standby_delay_s
OnDelaySelected ==
    ArmsOnTimer =>
        /\ c.state = STATE_OFF =>
              /\ c'.pending_target_state \in {STATE_STANDBY, STATE_ACTIVE}
              /\ c'.pending_on_timer = now + cfg.on_delay_s
        /\ c.state = STATE_ACTIVE =>
              /\ c'.pending_target_state = STATE_STANDBY
              /\ c'.pending_on_timer = now + cfg.active_standby_delay_s

\* a processed standby-band sample in ACTIVE leaves a pending grace timer
\* untouched
BandKeepsGraceInActive ==
    ( /\ cfg.mode = MODE_STANDBY
      /\ c.state = STATE_ACTIVE
      /\ c.pending_off_timer # None
      /\ PowerUpdate
      /\ ~c.schedule_blocked
      /\ c'.current_power >= StandbyThreshold(cfg)
      /\ c'.current_power < ActiveThreshold(cfg) )
    => /\ c'.pending_off_timer = c.pending_off_timer
       /\ OffHandle(c) \in c'.scheduled

\* a session is opened from OFF by the bootstrap read or by the expiry of
\* an 'on' timer that ran for on_delay_s in OFF, hence no sooner than
\* on_delay_s after the end of the last committed session
OpenedAfterFullOnDelay ==
    LeavesOff =>
        \/ AsyncStart
        \/ /\ OnTimerExpiry
           /\ \/ c.session_history = << >>
              \/ FromIsoFormat(c.session_history[1].end) + cfg.on_delay_s <= now

\* C34: an 'on' timer armed in OFF (target STANDBY or ACTIVE) runs for
\* on_delay_s and one armed in ACTIVE to drop to STANDBY for
\* active_standby_delay_s; a standby-band sample in ACTIVE leaves a pending
\* grace timer untouched; and every session opened from OFF other than by
\* the bootstrap read is opened by a timer that ran for the full on_delay_s.
C34_OnDelaySelection ==
    [][ OnDelaySelected /\ BandKeepsGraceInActive /\ OpenedAfterFullOnDelay ]_vars


\* --------------------------------------------------------------- C35
\* C35: in every reachable state the pending-session-end flag is set exactly
\* when an off/grace timer is pending.
C35_FlagIffOffTimer ==
    c.pending_session_end <=> c.pending_off_timer # None

\* --------------------------------------------------------------- C36
\* C36: whenever the activity state is OFF no off/grace timer is pending,
\* and the expiry of an off/grace timer closes no session other than the
\* one during which it was armed (it was armed no earlier than the session
\* it closes was opened).
C36_NoOffTimerInOff ==
    [][ /\ c'.state = STATE_OFF =>
              c'.pending_off_timer = None /\ CallsOfKind(c', "off") = {}
        /\ ( OffTimerExpiry /\ c.session_start_time # None ) =>
              c.session_start_time + OffDelay(cfg) <= now ]_vars


\* --------------------------------------------------------------- C37
\* the start times of the sessions recorded in a history
RecordedStarts(h) == { h[i].start : i \in 1 .. Len(h) }

\* C37: no step other than the restore adds more than 1 to sessions_total
\* or more than one record to the history; a step that commits takes an
\* open session, closes it (the start time is cleared, so that a later
\* _end_session finds nothing to commit), adds 1 to sessions_today and puts
\* one record of that session in front of the history, and that session has
\* no record there yet: whichever of off/grace-timer expiry, auto-off and
\* schedule block come together, a session is committed at most once.
C37_ClosedAtMostOnce ==
    [][ ~Restore =>
          /\ c'.sessions_total \in {c.sessions_total, c.sessions_total + 1}
          /\ c'.session_history # c.session_history =>
                c'.sessions_total = c.sessions_total + 1
          /\ c'.sessions_total = c.sessions_total + 1 =>
                /\ c.session_start_time # None
                /\ c'.session_start_time = None
                /\ c'.sessions_today = c.sessions_today + 1
                /\ c'.session_history =
                      Take(<<c'.session_history[1]>> \o c.session_history,
                           SESSION_HISTORY_SIZE)
                /\ c'.session_history[1].start = IsoFormat(c.session_start_time)
                /\ c'.session_history[1].start \notin RecordedStarts(c.session_history)
      ]_vars

\* C37 witness: the schedule block and the auto-off have both called
\* turn_off for the open session and wait for the call to return, and the
\* off/grace timer has just expired and committed that session
C37_Witness ==
    /\ enforce_pc = "await_turn_off"
    /\ auto_off_pc = "await_turn_off"
    /\ session_log = "ended"
    /\ c.pending_off_timer = None
    /\ c.session_history[1].end = IsoFormat(now)


\* --------------------------------------------------------------- C38
\* mutant: the proxy switch calls the physical switch whatever the schedule
ProxyTurnOn_IgnoresBlock ==
    /\ phase = "running"
    /\ service_call' = "turn_on"
    /\ switch_state' = "on"
    /\ switch_events' = QueueSwitchEvent(switch_events, switch_state, "on")
    /\ session_log' = "none"
    /\ UNCHANGED <<c, cfg, now, phase, saved, enforce_pc, auto_off_pc,
                   schedule_due, sample_cap>>
    /\ button_press' = "turn_on"
    /\ Notify(FALSE)

\* ProxySwitch.async_turn_on: rejected while the schedule blocks, else the
\* physical switch is called (nothing follows the await of the call)
ProxyTurnOn ==
    /\ phase = "running"
    /\ IF c.schedule_blocked
       THEN /\ service_call' = "none"
            /\ UNCHANGED <<switch_state, switch_events>>
       ELSE /\ service_call' = "turn_on"
            /\ switch_state' = "on"
            /\ switch_events' = QueueSwitchEvent(switch_events, switch_state, "on")
    /\ session_log' = "none"
    /\ UNCHANGED <<c, cfg, now, phase, saved, enforce_pc, auto_off_pc,
                   schedule_due, sample_cap>>
    /\ button_press' = "turn_on"
    /\ Notify(FALSE)

\* a freshly installed standby-mode device with schedule and auto-off whose
\* proxy switch is used
InitProxy ==
    /\ InitCommon
    /\ cfg = Config(StandbyData)
    /\ saved = << >>
    /\ sample_cap = None

NextProxy ==
    \/ AsyncStart
    \/ PowerUpdate
    \/ SwitchReport
    \/ SwitchEventHandled
    \/ OnTimerExpiry
    \/ OffTimerExpiry
    \/ AutoOffExpiry
    \/ AutoTurnOffResume
    \/ ScheduleTick
    \/ ScheduleResume
    \/ ProxyTurnOn
    \/ Tick

SpecProxy == InitProxy /\ [][NextProxy]_vars

\* C38: a step calls switch.turn_on only with the blocked flag clear after
\* it: the proxy switch's turn-on calls the switch only if the flag is
\* clear and otherwise calls nothing and leaves the switch alone, and the
\* controller calls turn_on only in the step that clears the flag (the
\* blocked -> unblocked transition).
C38_NoTurnOnWhileBlocked ==
    [][ /\ service_call' = "turn_on" =>
              /\ ~c'.schedule_blocked
              /\ IF button_press' = "turn_on" THEN ~c.schedule_blocked
                 ELSE c.schedule_blocked /\ (ScheduleTick \/ AsyncStart)
        /\ ( button_press' = "turn_on" /\ c.schedule_blocked ) =>
              /\ service_call' = "none"
              /\ switch_state' = switch_state
              /\ switch_events' = switch_events
              /\ c' = c ]_vars

\* C38 witness: the schedule block turned the switch off, and the proxy
\* switch, asked to turn on during the block, called nothing: the switch is
\* still off
C38_Witness ==
    /\ button_press = "turn_on"
    /\ c.schedule_blocked
    /\ c.was_on_before_schedule_off
    /\ enforce_pc = "idle"
    /\ service_call = "none"
    /\ switch_state = "off"


\* --------------------------------------------------------------- C39
\* freshly installed devices of both modes without schedule and auto-off
\* that smooth the power over two minutes
QuietData ==
    { PeakData, [PeakData EXCEPT !.mode = MODE_SIMPLE] }

InitQuiet ==
    /\ InitCommon
    /\ cfg \in { Config(d) : d \in QuietData }
    /\ saved = << >>
    /\ sample_cap = None

\* the appliance stops working: from now on every power sample is below
\* the session-ending threshold
PowerStaysLow ==
    /\ phase = "running"
    /\ sample_cap = None
    /\ sample_cap' = OffThreshold(cfg)
    /\ service_call' = "none"
    /\ session_log' = "none"
    /\ UNCHANGED <<c, cfg, now, phase, saved, switch_state, switch_events,
                   enforce_pc, auto_off_pc, schedule_due>>
    /\ button_press' = "none"
    /\ Notify(FALSE)

\* a power sample, delivered in the first half of the time explored: the
\* second half lets the timers armed in the first fire
QuietPowerUpdate == now <= BootTime + Horizon \div 2 /\ FinePowerUpdate

NextQuiet ==
    \/ AsyncStart
    \/ QuietPowerUpdate
    \/ PowerStaysLow
    \/ OnTimerExpiry
    \/ OffTimerExpiry
    \/ Tick

\* time passes and a timer that is due fires
SpecQuiet ==
    /\ InitQuiet
    /\ [][NextQuiet]_vars
    /\ WF_vars(Tick)
    /\ WF_vars(OnTimerExpiry)
    /\ WF_vars(OffTimerExpiry)

\* a session is open, the last power sample, which the state machine
\* processed with the session open, was below the session-ending threshold
\* and so is every later one
LowSamplesFromNowOn ==
    /\ sample_cap # None
    /\ c.state # STATE_OFF
    /\ ~c.schedule_blocked
    /\ c.current_power < sample_cap

\* the smoothed power of the last processed sample, the average of the
\* readings _calculate_smoothed_power left in the window, is below the
\* session-ending threshold
SmoothedLow ==
    IF c.power_readings = << >> THEN c.current_power < sample_cap
    ELSE RoundDiv(SumField(c.power_readings, 2), Len(c.power_readings)) < sample_cap

\* C39 (as claimed): if a session is open, the schedule is not blocking and
\* from some point on every processed power sample is below the
\* session-ending threshold, at least one being delivered, then the state
\* eventually becomes OFF (timers that are due fire).
C39_SessionEventuallyEnds ==
    LowSamplesFromNowOn ~> c.state = STATE_OFF

\* C39 (amended): the same, the smoothed power of every processed sample
\* being below the session-ending threshold from that point on.
C39_SessionEventuallyEndsWhenSmoothedLow ==
    ( LowSamplesFromNowOn /\ SmoothedLow ) ~> c.state = STATE_OFF

\* C39 witness: a session that reached 80 W was closed and committed by the
\* off/grace timer after the samples had become low for good
C39_Witness ==
    /\ sample_cap # None
    /\ c.current_power < sample_cap
    /\ SmoothedLow
    /\ c.state = STATE_OFF
    /\ session_log = "ended"
    /\ c.session_history[1].peak_power_w = 8000
    /\ c.session_history[1].end = IsoFormat(now)
====
